---------------------------- MODULE Spec2Model ----------------------------
(***************************************************************************)
(* A model of the CashFlow Manager API (src/main.py): the rate limiter,    *)
(* the local token service, the external (JWKS) identity verifier and the  *)
(* auth endpoints, each handler translated step by step from its code.     *)
(*                                                                         *)
(* Time is the reading of time.time() / datetime.utcnow() in seconds.      *)
(* Storage (the users, auth_sessions and transactions tables) is external  *)
(* to the program: the program creates only the transactions table, so the *)
(* users and auth_sessions tables start with whatever rows the deployment  *)
(* holds.                                                                  *)
(***************************************************************************)
EXTENDS Integers, Sequences, FiniteSets, Bags, TLC

VARIABLES
    now,              \* the clock, in seconds
    users,            \* table users: a set of rows
    sessions,         \* table auth_sessions: a set of rows
    transactions,     \* table transactions: a set of rows
    tx_seq,           \* the sequence behind transactions.id (SERIAL)
    requests,         \* RateLimiter.requests: ip -> sequence of <<timestamp, endpoint>>
    failed_attempts,  \* RateLimiter.failed_attempts: ip -> sequence of timestamps
    jwks_cache,       \* _jwks_cache: [set |-> BOOLEAN, keys |-> set of JWK entries]
    jwks_cache_time,  \* _jwks_cache_time: [set |-> BOOLEAN, t |-> time]
    idp_keys,         \* the key set the identity provider publishes now (environment)
    pyjwt_exp_inclusive, \* which expiry test the installed PyJWT applies
    utc_offset,       \* local time minus UTC on the server, in seconds
    db_pool,          \* the connection pool: [idle, used] counts of connections
    calls,            \* RateLimiter.check_rate_limit calls in flight, per worker thread
    resp,             \* the response to the most recent request
    audit,            \* the audit records the most recent request emitted
    hist,             \* history of the run, read by the properties only
    budget            \* requests the run may still serve (bounds the run)

vars == <<now, users, sessions, transactions, tx_seq, requests,
          failed_attempts, jwks_cache, jwks_cache_time, idp_keys,
          pyjwt_exp_inclusive, utc_offset, db_pool, calls, resp, audit, hist, budget>>

dbVars == <<users, sessions, transactions, tx_seq>>
limiterVars == <<requests, failed_attempts>>
jwksVars == <<jwks_cache, jwks_cache_time, idp_keys>>

-----------------------------------------------------------------------------
(* Program constants                                                       *)

ACCESS_TOKEN_EXPIRE_MINUTES == 30
REFRESH_TOKEN_EXPIRE_DAYS == 7
MIN_PASSWORD_LENGTH == 12
MAX_PASSWORD_LENGTH == 128
JWKS_TTL == 3600
FAILED_MAX_ATTEMPTS == 10
FAILED_WINDOW == 3600

\* psycopg2.pool.SimpleConnectionPool(minconn=1, maxconn=10, dsn=...): the
\* pool opens minconn connections when it is made
MINCONN == 1
MAXCONN == 10
SimpleConnectionPool == [idle |-> MINCONN, used |-> 0]

AccessLifetime == ACCESS_TOKEN_EXPIRE_MINUTES * 60
RefreshLifetime == REFRESH_TOKEN_EXPIRE_DAYS * 24 * 60 * 60

\* RateLimiter.limits
limits ==
    [default       |-> [requests |-> 100, window |-> 60],
     transactions  |-> [requests |-> 100, window |-> 60],
     summary       |-> [requests |-> 50,  window |-> 60],
     auth_login    |-> [requests |-> 5,   window |-> 300],
     auth_register |-> [requests |-> 3,   window |-> 3600]]

-----------------------------------------------------------------------------
(* Keys and JSON Web Tokens (the PyJWT calls of the program)               *)

\* A key is [kty, id]: kty "oct" is a shared secret (a str), "RSA" / "EC" a key
\* pair; a signature names the key that made it.
SECRET_KEY == [kty |-> "oct", id |-> "SECRET_KEY"]
SUPABASE_JWT_SECRET == [kty |-> "oct", id |-> "SUPABASE_JWT_SECRET"]
ALGORITHM == "HS256"

NoKid == "-"
NoEmail == "-"
NoType == "-"
NoPayload == [sub |-> "-", exp |-> 0, type |-> NoType, email |-> NoEmail]

\* The signature of (header, payload) under key.
Signature(alg, kid, payload, key) ==
    [key |-> key, alg |-> alg, kid |-> kid, payload |-> payload]

\* jwt.encode(payload, key, algorithm, headers={"kid": kid})
jwt_encode(payload, key, alg, kid) ==
    [wellformed |-> TRUE, alg |-> alg, kid |-> kid, payload |-> payload,
     sig |-> Signature(alg, kid, payload, key)]

\* Algorithm.prepare_key: HS256 takes a str/bytes secret, RS256 an RSA key,
\* ES256 an EC key, "none" no key at all; anything else raises.
KeyUsable(alg, key) ==
    \/ alg = "HS256" /\ key.kty = "oct"
    \/ alg = "RS256" /\ key.kty = "RSA"
    \/ alg = "ES256" /\ key.kty = "EC"

\* A decoder that never finds a token expired (verify_exp switched off)
ExpiredAt_Never(exp, t, inclusive) == FALSE

\* PyJWT's expiry test: exp <= now (2.6 and later) or exp < now (before).
ExpiredAt(exp, t, inclusive) == IF inclusive THEN exp <= t ELSE exp < t

\* jwt.decode with options={"verify_signature": False}, as the debug endpoint
\* calls it: only parsing can fail.
jwt_decode_Unverified(token, key, algorithms, t, inclusive) ==
    IF ~token.wellformed
    THEN [err |-> "DecodeError", payload |-> NoPayload]
    ELSE [err |-> "none", payload |-> token.payload]

\* jwt.decode(token, key, algorithms=...): the error raised, or "none" and the
\* payload.  Order as in PyJWT: parse, algorithm allow-list, key, signature,
\* then the exp claim.
jwt_decode(token, key, algorithms, t, inclusive) ==
    IF ~token.wellformed
    THEN [err |-> "DecodeError", payload |-> NoPayload]
    ELSE IF token.alg \notin algorithms
    THEN [err |-> "InvalidAlgorithmError", payload |-> NoPayload]
    ELSE IF ~KeyUsable(token.alg, key)
    THEN [err |-> "InvalidKeyError", payload |-> NoPayload]
    ELSE IF token.sig # Signature(token.alg, token.kid, token.payload, key)
    THEN [err |-> "InvalidSignatureError", payload |-> NoPayload]
    ELSE IF ExpiredAt(token.payload.exp, t, inclusive)
    THEN [err |-> "ExpiredSignatureError", payload |-> NoPayload]
    ELSE [err |-> "none", payload |-> token.payload]

create_access_token(user_id, t) ==
    jwt_encode([sub |-> user_id, exp |-> t + AccessLifetime, type |-> "access",
                email |-> NoEmail], SECRET_KEY, ALGORITHM, NoKid)

create_refresh_token(user_id, t) ==
    jwt_encode([sub |-> user_id, exp |-> t + RefreshLifetime, type |-> "refresh",
                email |-> NoEmail], SECRET_KEY, ALGORITHM, NoKid)

\* verify_token without the comparison of the "type" claim
verify_token_AnyType(token, token_type, t, inclusive) ==
    LET d == jwt_decode(token, SECRET_KEY, {ALGORITHM}, t, inclusive) IN
    IF d.err = "none"
    THEN [kind |-> "payload", payload |-> d.payload, exc |-> "none"]
    ELSE IF d.err = "ExpiredSignatureError"
    THEN [kind |-> "None", payload |-> NoPayload, exc |-> "none"]
    ELSE [kind |-> "raise", payload |-> NoPayload, exc |-> "AttributeError"]

\* verify_token: kind "payload" (the payload is returned), "None", or "raise".
\* The second handler names jwt.JWTError, which PyJWT does not define: for any
\* error but ExpiredSignatureError, evaluating that except clause raises
\* AttributeError, which leaves verify_token.
verify_token(token, token_type, t, inclusive) ==
    LET d == jwt_decode(token, SECRET_KEY, {ALGORITHM}, t, inclusive) IN
    IF d.err = "none"
    THEN IF d.payload.type # token_type
         THEN [kind |-> "None", payload |-> NoPayload, exc |-> "none"]
         ELSE [kind |-> "payload", payload |-> d.payload, exc |-> "none"]
    ELSE IF d.err = "ExpiredSignatureError"
    THEN [kind |-> "None", payload |-> NoPayload, exc |-> "none"]
    ELSE [kind |-> "raise", payload |-> NoPayload, exc |-> "AttributeError"]

\* hash_token: sha256 of the token, a value that is not the token
hash_token(token) == [sha256 |-> token]

-----------------------------------------------------------------------------
(* Passwords                                                               *)

UpperChars == {"A","B","C","D","E","F","G","H","I","J","K","L","M","N","O","P",
               "Q","R","S","T","U","V","W","X","Y","Z"}
LowerChars == {"a","b","c","d","e","f","g","h","i","j","k","l","m","n","o","p",
               "q","r","s","t","u","v","w","x","y","z"}
DigitChars == {"0","1","2","3","4","5","6","7","8","9"}
\* '!@#$%^&*()_+-=[]{}|;:,.<>?'
SpecialChars == {"!","@","#","$","%","^","&","*","(",")","_","+","-","=","[",
                 "]","{","}","|",";",":",",",".","<",">","?"}

\* A strength check without the upper length limit
validate_password_strength_NoMax(password) ==
    IF Len(password) < MIN_PASSWORD_LENGTH
    THEN [ok |-> FALSE, message |-> "Password must be at least 12 characters long"]
    ELSE LET has(chars) == \E i \in 1..Len(password) : password[i] \in chars
         IN IF ~(has(UpperChars) /\ has(LowerChars) /\ has(DigitChars) /\
                 has(SpecialChars))
            THEN [ok |-> FALSE,
                  message |-> "Password must contain uppercase, lowercase, digit, and special character"]
            ELSE [ok |-> TRUE, message |-> "Password is strong"]

\* validate_password_strength(password) -> (ok, message); a password is the
\* sequence of its characters
validate_password_strength(password) ==
    IF Len(password) < MIN_PASSWORD_LENGTH
    THEN [ok |-> FALSE, message |-> "Password must be at least 12 characters long"]
    ELSE IF Len(password) > MAX_PASSWORD_LENGTH
    THEN [ok |-> FALSE, message |-> "Password must be less than 128 characters"]
    ELSE LET has_upper   == \E i \in 1..Len(password) : password[i] \in UpperChars
             has_lower   == \E i \in 1..Len(password) : password[i] \in LowerChars
             has_digit   == \E i \in 1..Len(password) : password[i] \in DigitChars
             has_special == \E i \in 1..Len(password) : password[i] \in SpecialChars
         IN IF ~(has_upper /\ has_lower /\ has_digit /\ has_special)
            THEN [ok |-> FALSE,
                  message |-> "Password must contain uppercase, lowercase, digit, and special character"]
            ELSE [ok |-> TRUE, message |-> "Password is strong"]

\* hash_password / verify_password (bcrypt): the digest is a value that is not
\* the password, and verifies exactly the password it was made from.
hash_password(password) == [scheme |-> "bcrypt", of |-> password]

verify_password(plain_password, hashed_password) ==
    hashed_password = hash_password(plain_password)

-----------------------------------------------------------------------------
(* The JWKS cache and the external identity verifier                       *)

NoJwks == [set |-> FALSE, keys |-> {}]
NoTime == [set |-> FALSE, t |-> 0]

\* A get_jwks() whose cache never goes stale
get_jwks_NoTtl(cache, cache_time, t, fetch) ==
    IF cache.set /\ cache_time.set
    THEN [jwks |-> cache, cache |-> cache, cache_time |-> cache_time,
          fetched |-> FALSE]
    ELSE IF fetch.ok
    THEN [jwks |-> [set |-> TRUE, keys |-> fetch.keys],
          cache |-> [set |-> TRUE, keys |-> fetch.keys],
          cache_time |-> [set |-> TRUE, t |-> t],
          fetched |-> TRUE]
    ELSE [jwks |-> NoJwks, cache |-> cache, cache_time |-> cache_time,
          fetched |-> TRUE]

\* A get_jwks() that stamps the cache when the fetch fails, too
get_jwks_StampOnFailure(cache, cache_time, t, fetch) ==
    IF cache.set /\ cache_time.set /\ (t - cache_time.t) < JWKS_TTL
    THEN [jwks |-> cache, cache |-> cache, cache_time |-> cache_time,
          fetched |-> FALSE]
    ELSE IF fetch.ok
    THEN [jwks |-> [set |-> TRUE, keys |-> fetch.keys],
          cache |-> [set |-> TRUE, keys |-> fetch.keys],
          cache_time |-> [set |-> TRUE, t |-> t],
          fetched |-> TRUE]
    ELSE [jwks |-> NoJwks, cache |-> cache,
          cache_time |-> [set |-> TRUE, t |-> t], fetched |-> TRUE]

\* get_jwks() with the outcome of the HTTP fetch, should it be attempted:
\* fetch = [ok, keys].  Returns the value returned (jwks), the new cache and
\* timestamp, and whether a fetch was attempted.  time.time() is positive, so
\* a timestamp that is set is truthy; a fetched document {"keys": [...]} is a
\* non-empty dict, truthy too.
get_jwks(cache, cache_time, t, fetch) ==
    IF cache.set /\ cache_time.set /\ (t - cache_time.t) < JWKS_TTL
    THEN [jwks |-> cache, cache |-> cache, cache_time |-> cache_time,
          fetched |-> FALSE]
    ELSE IF fetch.ok
    THEN [jwks |-> [set |-> TRUE, keys |-> fetch.keys],
          cache |-> [set |-> TRUE, keys |-> fetch.keys],
          cache_time |-> [set |-> TRUE, t |-> t],
          fetched |-> TRUE]
    ELSE [jwks |-> NoJwks, cache |-> cache, cache_time |-> cache_time,
          fetched |-> TRUE]

Detail(text, inner) == [text |-> text, inner |-> inner]

NoIdentity == [user_id |-> "-", email |-> NoEmail]

\* The first handler of verify_supabase_token's try: ExpiredSignatureError.
SupabaseExpired ==
    [status |-> 401, detail |-> Detail("Token has expired", "-"),
     identity |-> NoIdentity]

\* The second handler: "except Exception" catches every other exception
\* raised in the try block, the HTTPExceptions the block raises itself
\* included, and answers 401 "Invalid token: <str(e)>".
SupabaseWrapped(inner) ==
    [status |-> 401, detail |-> Detail("Invalid token", inner),
     identity |-> NoIdentity]

\* verify_supabase_token(credentials) with the outcome of the HTTP fetch
\* get_jwks() would make.  The header is parsed before get_jwks() is called,
\* so a string that is no token leaves the cache alone.  Returns the answer
\* together with the cache afterwards and the key set get_jwks() returned.
verify_supabase_token(token, cache, cache_time, t, fetch, inclusive) ==
    LET j == get_jwks(cache, cache_time, t, fetch)
        Out(r) == [status |-> r.status, detail |-> r.detail,
                   identity |-> r.identity, cache |-> j.cache,
                   cache_time |-> j.cache_time, jwks |-> j.jwks,
                   fetched |-> j.fetched]
    IN
    IF ~token.wellformed
    THEN [status |-> 401, detail |-> Detail("Invalid token", "DecodeError"),
          identity |-> NoIdentity, cache |-> cache, cache_time |-> cache_time,
          jwks |-> NoJwks, fetched |-> FALSE]
    ELSE IF ~j.jwks.set
    THEN Out(SupabaseWrapped("500: Unable to fetch JWKS"))
    ELSE LET matches == {key \in j.jwks.keys : key.kid = token.kid} IN
         IF matches = {}
         THEN Out(SupabaseWrapped("401: Signing key not found in JWKS"))
         ELSE LET key_data == CHOOSE key \in matches : TRUE IN
              IF key_data.kty \notin {"RSA", "EC"}
              THEN Out(SupabaseWrapped("401: Unsupported key type"))
              ELSE LET signing_key == [kty |-> key_data.kty, id |-> key_data.id]
                       d == jwt_decode(token, signing_key, {token.alg}, t,
                                       inclusive)
                   IN IF d.err = "ExpiredSignatureError"
                      THEN Out(SupabaseExpired)
                      ELSE IF d.err # "none"
                      THEN Out(SupabaseWrapped(d.err))
                      ELSE Out([status |-> 200, detail |-> Detail("-", "-"),
                                identity |-> [user_id |-> d.payload.sub,
                                              email |-> d.payload.email]])

-----------------------------------------------------------------------------
(* Storage and the local authorization dependency                          *)

\* psycopg2: leaving "with conn.cursor() as cursor:" closes the cursor, and
\* execute() on a closed cursor raises InterfaceError.
CursorClosedAfterWith == TRUE

\* psycopg2 binds %s parameters only: a statement written with "?" and given
\* parameters raises on execute().
QmarkPlaceholdersRejected == TRUE

NoUser ==
    [user_id |-> "-", email |-> NoEmail, password_hash |-> hash_password(<< >>),
     full_name |-> "-", business_name |-> "-", is_active |-> 0,
     is_verified |-> 0, created_at |-> 0, updated_at |-> 0, last_login_at |-> 0]

\* The lookup without the condition on is_active
ActiveUsersById_AnyState(tbl, user_id) ==
    {u \in tbl : u.user_id = user_id}

\* SELECT * FROM users WHERE user_id = %s AND is_active = 1
ActiveUsersById(tbl, user_id) ==
    {u \in tbl : u.user_id = user_id /\ u.is_active = 1}

\* A lookup by email that finds nothing
UsersByEmail_None(tbl, email) == {}

\* SELECT * FROM users WHERE email = %s
UsersByEmail(tbl, email) == {u \in tbl : u.email = email}

\* get_current_user that also requires a session row for the token
get_current_user_Revocable(token, tbl, t, inclusive) ==
    LET v == verify_token(token, "access", t, inclusive) IN
    IF v.kind = "raise"
    THEN [status |-> 500, detail |-> Detail("Internal Server Error", v.exc),
          user |-> NoUser]
    ELSE IF v.kind = "None" \/
            \A x \in sessions : x.access_token_hash # hash_token(token)
    THEN [status |-> 401, detail |-> Detail("Invalid or expired token", "-"),
          user |-> NoUser]
    ELSE LET found == ActiveUsersById(tbl, v.payload.sub) IN
         IF found = {}
         THEN [status |-> 401, detail |-> Detail("User not found or inactive", "-"),
               user |-> NoUser]
         ELSE [status |-> 200, detail |-> Detail("-", "-"),
               user |-> CHOOSE u \in found : TRUE]

\* get_current_user(credentials): status 200 and the user row, 401, or 500
\* when verify_token raises.
get_current_user(token, tbl, t, inclusive) ==
    LET v == verify_token(token, "access", t, inclusive) IN
    IF v.kind = "raise"
    THEN [status |-> 500, detail |-> Detail("Internal Server Error", v.exc),
          user |-> NoUser]
    ELSE IF v.kind = "None"
    THEN [status |-> 401, detail |-> Detail("Invalid or expired token", "-"),
          user |-> NoUser]
    ELSE LET found == ActiveUsersById(tbl, v.payload.sub) IN
         IF found = {}
         THEN [status |-> 401, detail |-> Detail("User not found or inactive", "-"),
               user |-> NoUser]
         ELSE [status |-> 200, detail |-> Detail("-", "-"),
               user |-> CHOOSE u \in found : TRUE]

-----------------------------------------------------------------------------
(* The rate limiter                                                        *)

\* "word in endpoint" for the paths of the routes that depend on
\* check_rate_limit
Contains(endpoint, word) ==
    word \in (CASE endpoint = "/auth/login"     -> {"login"}
                [] endpoint = "/auth/register"  -> {"register"}
                [] endpoint = "/transactions"   -> {"transactions"}
                [] endpoint = "/transactions/1" -> {"transactions"}
                [] endpoint = "/summary"        -> {"summary"}
                [] OTHER                        -> {})

\* The limit_key chosen by RateLimiter.check_rate_limit
limit_key(endpoint) ==
    IF Contains(endpoint, "login") THEN "auth_login"
    ELSE IF Contains(endpoint, "register") THEN "auth_register"
    ELSE IF Contains(endpoint, "transactions") THEN "transactions"
    ELSE IF Contains(endpoint, "summary") THEN "summary"
    ELSE "default"

\* RateLimiter._clean_old_requests: the new list of ip
clean_old_requests(reqs, ip, window, t) ==
    LET Recent(e) == t - e[1] < window IN SelectSeq(reqs[ip], Recent)

\* check_rate_limit that counts every entry of the list, of any age, and
\* purges none
rl_check_rate_limit_NoExpiry(reqs, ip, endpoint, t) ==
    LET config == limits[limit_key(endpoint)]
        recent_requests == Len(reqs[ip])
    IN IF recent_requests >= config.requests
       THEN [allowed |-> FALSE, remaining |-> config.requests,
             window |-> config.window, requests |-> reqs]
       ELSE [allowed |-> TRUE,
             remaining |-> config.requests - recent_requests - 1,
             window |-> config.window,
             requests |-> [reqs EXCEPT ![ip] = Append(@, <<t, endpoint>>)]]

\* check_rate_limit that purges and counts the entries of the request's own
\* class only
rl_check_rate_limit_OwnClass(reqs, ip, endpoint, t) ==
    LET config == limits[limit_key(endpoint)]
        Keep(e) == limit_key(e[2]) # limit_key(endpoint) \/ t - e[1] < config.window
        Mine(e) == limit_key(e[2]) = limit_key(endpoint)
        cleaned == SelectSeq(reqs[ip], Keep)
        recent_requests == Len(SelectSeq(cleaned, Mine))
    IN IF recent_requests >= config.requests
       THEN [allowed |-> FALSE, remaining |-> config.requests,
             window |-> config.window,
             requests |-> [reqs EXCEPT ![ip] = cleaned]]
       ELSE [allowed |-> TRUE,
             remaining |-> config.requests - recent_requests - 1,
             window |-> config.window,
             requests |-> [reqs EXCEPT ![ip] = Append(cleaned, <<t, endpoint>>)]]

\* RateLimiter.check_rate_limit(ip, endpoint) -> (allowed, remaining, window),
\* with the new value of self.requests
rl_check_rate_limit(reqs, ip, endpoint, t) ==
    LET config == limits[limit_key(endpoint)]
        window == config.window
        max_requests == config.requests
        cleaned == clean_old_requests(reqs, ip, window, t)
        Recent(e) == t - e[1] < window
        recent_requests == Len(SelectSeq(cleaned, Recent))
    IN IF recent_requests >= max_requests
       THEN [allowed |-> FALSE, remaining |-> max_requests, window |-> window,
             requests |-> [reqs EXCEPT ![ip] = cleaned]]
       ELSE [allowed |-> TRUE, remaining |-> max_requests - recent_requests - 1,
             window |-> window,
             requests |-> [reqs EXCEPT ![ip] = Append(cleaned, <<t, endpoint>>)]]

\* check_failed_attempts with the comparison relaxed to <=: the throttle
\* would start one failure late.
check_failed_attempts_OneLate(failed, ip, t) ==
    LET Recent(ts) == t - ts < FAILED_WINDOW
        kept == SelectSeq(failed[ip], Recent)
    IN [ok |-> Len(kept) <= FAILED_MAX_ATTEMPTS,
        failed |-> [failed EXCEPT ![ip] = kept]]

\* check_failed_attempts that counts the recent failures and purges nothing
check_failed_attempts_NoPurge(failed, ip, t) ==
    LET Recent(ts) == t - ts < FAILED_WINDOW
        kept == SelectSeq(failed[ip], Recent)
    IN [ok |-> Len(kept) < FAILED_MAX_ATTEMPTS, failed |-> failed]

\* RateLimiter.check_failed_attempts(ip): the purged list of ip and the answer
check_failed_attempts(failed, ip, t) ==
    LET Recent(ts) == t - ts < FAILED_WINDOW
        kept == SelectSeq(failed[ip], Recent)
    IN [ok |-> Len(kept) < FAILED_MAX_ATTEMPTS,
        failed |-> [failed EXCEPT ![ip] = kept]]

\* RateLimiter.record_failed_attempt(ip)
record_failed_attempt(failed, ip, t) ==
    [failed EXCEPT ![ip] = Append(@, t)]

-----------------------------------------------------------------------------
(* Inputs and bounds of the model                                          *)

IPs == {"10.0.0.1", "10.0.0.2"}

RateEndpoints == {"/auth/login", "/auth/register", "/summary", "/categories"}

\* Requests served in a run of the rate-limiter specification
MaxRateReq == 5
\* Clock steps and horizon of the rate-limiter specification
RateSteps == {60, 3600}
MaxRateTicks == 2

\* Passwords of the runs: "Abcdef1!2345", "ValidPass123!", "short1!" and
\* "NoDigitsHere!!"
PwAbcdef == <<"A","b","c","d","e","f","1","!","2","3","4","5">>
PwValidPass == <<"V","a","l","i","d","P","a","s","s","1","2","3","!">>
PwShort == <<"s","h","o","r","t","1","!">>
PwNoDigits == <<"N","o","D","i","g","i","t","s","H","e","r","e","!","!">>

\* The rows the users table holds when the program starts: u1 is active, u2
\* has been disabled.
UserRow(user_id, email, password, full_name, is_active) ==
    [user_id |-> user_id, email |-> email,
     password_hash |-> hash_password(password), full_name |-> full_name,
     business_name |-> "-", is_active |-> is_active, is_verified |-> 1,
     created_at |-> 0, updated_at |-> 0, last_login_at |-> 0]

SeedUsers ==
    {UserRow("u1", "a@x.com", PwAbcdef, "Ann", 1),
     UserRow("u2", "b@x.com", PwValidPass, "Bob", 0)}

\* Keys that are not the program's: a secret an attacker picks, and the key
\* pairs of the identity provider with their JWKS entries.
ATTACKER_KEY == [kty |-> "oct", id |-> "attacker"]

Jwk(kid, kty, id) == [kid |-> kid, kty |-> kty, id |-> id]
JwkRsa == Jwk("k1", "RSA", "k1")
JwkEc == Jwk("k2", "EC", "k2")
JwkOkp == Jwk("k3", "OKP", "k3")
JwkNoKid == Jwk(NoKid, "RSA", "k0")

\* The key of a JWKS entry
KeyOf(jwk) == [kty |-> jwk.kty, id |-> jwk.id]

MalformedToken ==
    [wellformed |-> FALSE, alg |-> "-", kid |-> NoKid, payload |-> NoPayload,
     sig |-> Signature("-", NoKid, NoPayload, [kty |-> "-", id |-> "-"])]

\* Subjects of tokens: the two stored users and an id no row has
Subjects == {"u1", "u2", "u9"}
\* Instants at which tokens of the runs were issued
IssueTimes == {0, 1800}

AccessTokensOf(I) == {create_access_token(u, i) : u \in Subjects, i \in I}
RefreshTokensOf(I) == {create_refresh_token(u, i) : u \in Subjects, i \in I}

\* Tokens the program did not issue: signed with another secret, or a token
\* of u2 whose subject was rewritten after signing.
ForgedTokensOf(I) ==
    {jwt_encode([sub |-> "u1", exp |-> i + AccessLifetime, type |-> "access",
                 email |-> NoEmail], ATTACKER_KEY, ALGORITHM, NoKid) : i \in I}
    \cup {[create_access_token("u2", i) EXCEPT !.payload.sub = "u1"] : i \in I}

AccessTokens == AccessTokensOf(IssueTimes)
RefreshTokens == RefreshTokensOf(IssueTimes)
ForgedTokens == ForgedTokensOf(IssueTimes)

\* Local-domain tokens a client can present at time t: those issued by then,
\* forgeries, and a string that is no token
LocalInputs(t) ==
    LET I == {i \in IssueTimes : i <= t} IN
    AccessTokensOf(I) \cup RefreshTokensOf(I) \cup ForgedTokensOf(I)
        \cup {MalformedToken}

-----------------------------------------------------------------------------
(* Responses, audit records, history                                       *)

\* Offsets of the server's local time from UTC in the runs
UtcOffsets == {0, 3600}

\* datetime.now(): the server's local time; datetime.utcnow() and time.time()
\* are the clock itself
LocalNow == now + utc_offset

NoTokens == {}
NoReq == [email |-> NoEmail, password |-> << >>, new_password |-> << >>,
          full_name |-> "-", token |-> {}, endpoint |-> "-",
          transaction_id |-> 0, transaction |-> {}, query |-> {}]

\* The response to a request: the operation, the client, the HTTP status and
\* detail, the identity returned or authorized, the token pairs returned, and
\* the request's inputs and the time it was served.
Response(op, ip, status, detail, user_id, tokens, req) ==
    [op |-> op, ip |-> ip, at |-> now, status |-> status, detail |-> detail,
     user_id |-> user_id, tokens |-> tokens, req |-> req,
     prior |-> 0, prior_failed |-> 0, retry_after |-> 0, jwks |-> NoJwks,
     fetched |-> FALSE, fetch |-> [ok |-> FALSE, keys |-> {}],
     cache_time_before |-> NoTime, body |-> {}, session |-> {},
     logged |-> TRUE]

NoResponse == Response("-", "-", 0, Detail("-", "-"), "-", NoTokens, NoReq)

\* AuditLogger.log_event, the record logged
AuditRecord(event_type, user_id, ip, email, reason) ==
    [event_type |-> event_type, user_id |-> user_id, ip_address |-> ip,
     email |-> email, reason |-> reason]

\* A log_event out of which a failure to emit the record propagates
log_event_Propagates(record, emit_ok) ==
    [raised |-> ~emit_ok, emitted |-> IF emit_ok THEN <<record>> ELSE << >>]

\* AuditLogger.log_event(...): logger.info(...) on the stream handler of
\* logging.basicConfig.  A failure to format or write the record is caught in
\* the handler's emit (logging.Handler.handleError), so the call returns
\* either way.
log_event(record, emit_ok) ==
    [raised |-> FALSE, emitted |-> IF emit_ok THEN <<record>> ELSE << >>]

NoHist ==
    [admitted |-> EmptyBag, ticks |-> 0,
     registered |-> {}, pw_changes |-> {}, failures |-> EmptyBag,
     key_misses |-> {}, logouts |-> {}, rejected |-> {}, fetches |-> {},
     answers |-> {}]

\* Entries of the admission history (a bag of [ip, cls, t]) of ip and class cls
\* younger than window
AdmittedWithin(h, ip, cls, window, t) ==
    LET hits == {e \in BagToSet(h.admitted) :
                    e.ip = ip /\ e.cls = cls /\ t - e.t < window}
    IN BagCardinality([e \in hits |-> h.admitted[e]])

\* The 429 raised by the dependency check_rate_limit(request)
RateLimitResponse(op, ip, req, window) ==
    [Response(op, ip, 429, Detail("Rate limit exceeded", "-"), "-", NoTokens, req)
     EXCEPT !.retry_after = window]

\* The 422 FastAPI answers when the request body fails its pydantic model
ValidationResponse(op, ip, req) ==
    Response(op, ip, 422, Detail("Unprocessable Entity", "-"), "-", NoTokens, req)

\* The 500 of an exception no handler catches
ServerErrorResponse(op, ip, req, exc) ==
    Response(op, ip, 500, Detail("Internal Server Error", exc), "-", NoTokens, req)

\* Failed logins of ip in the history (a bag of [ip, t]) younger than
\* FAILED_WINDOW
FailuresWithin(h, ip, t) ==
    LET hits == {e \in BagToSet(h.failures) : e.ip = ip /\ t - e.t < FAILED_WINDOW}
    IN BagCardinality([e \in hits |-> h.failures[e]])

\* The worker threads of the server's thread pool that run the synchronous
\* dependency check_rate_limit, and the frame of a thread that runs none
MaxThreads == 2
Threads == 1..MaxThreads
IdleCall == [pc |-> "idle", ip |-> "-", endpoint |-> "-", kept |-> << >>,
             recent_requests |-> 0]

-----------------------------------------------------------------------------
(* Initial state                                                           *)

InitCommon ==
    /\ now = 0
    /\ requests = [ip \in IPs |-> << >>]
    /\ failed_attempts = [ip \in IPs |-> << >>]
    /\ jwks_cache = NoJwks
    /\ jwks_cache_time = NoTime
    /\ resp = NoResponse
    /\ audit = << >>
    /\ hist = NoHist
    /\ tx_seq = 1
    /\ calls = [th \in Threads |-> IdleCall]

-----------------------------------------------------------------------------
(* The rate-limiter specification: the dependency check_rate_limit(request) *)
(* called for any client and path, and the clock.                          *)

\* check_rate_limit(request): raises 429 or returns True
CheckRateLimit(ip, endpoint) ==
    LET r == rl_check_rate_limit(requests, ip, endpoint, now)
        cls == limit_key(endpoint)
        prior == AdmittedWithin(hist, ip, cls, limits[cls].window, now)
        req == [NoReq EXCEPT !.endpoint = endpoint]
    IN /\ budget > 0
       /\ budget' = budget - 1
       /\ requests' = r.requests
       /\ resp' = IF r.allowed
                  THEN [Response("check_rate_limit", ip, 200, Detail("-", "-"),
                                 "-", NoTokens, req)
                        EXCEPT !.prior = prior]
                  ELSE [Response("check_rate_limit", ip, 429,
                                 Detail("Rate limit exceeded", "-"), "-",
                                 NoTokens, req)
                        EXCEPT !.prior = prior, !.retry_after = r.window]
       /\ hist' = IF r.allowed
                  THEN [hist EXCEPT !.admitted =
                            @ (+) SetToBag({[ip |-> ip, cls |-> cls, t |-> now]})]
                  ELSE [hist EXCEPT !.rejected =
                            @ \cup {[ip |-> ip, cls |-> cls, t |-> now]}]
       /\ UNCHANGED <<now, dbVars, failed_attempts, jwksVars,
                      pyjwt_exp_inclusive, utc_offset, db_pool, calls, audit>>

RateTick ==
    /\ hist.ticks < MaxRateTicks
    /\ \E d \in RateSteps : now' = now + d
    /\ hist' = [hist EXCEPT !.ticks = @ + 1]
    /\ UNCHANGED <<dbVars, limiterVars, jwksVars, pyjwt_exp_inclusive, utc_offset, db_pool, calls, resp,
                   audit, budget>>

InitRate ==
    /\ InitCommon
    /\ budget = MaxRateReq
    /\ users = {}
    /\ sessions = {}
    /\ transactions = {}
    /\ idp_keys = {}
    /\ pyjwt_exp_inclusive = TRUE
    /\ utc_offset = 0
    /\ db_pool = SimpleConnectionPool

NextRate ==
    \/ \E ip \in IPs, endpoint \in RateEndpoints : CheckRateLimit(ip, endpoint)
    \/ RateTick

SpecRate == InitRate /\ [][NextRate]_vars

\* C2: once max requests of class c from one IP have been admitted within the
\* last window seconds, the next class-c request from that IP inside the window
\* is rejected by check_rate_limit, whatever the IP requested in between.
C2_NthPlusOneRejected ==
    (resp.op = "check_rate_limit" /\
     resp.prior >= limits[limit_key(resp.req.endpoint)].requests)
        => resp.status = 429

\* The step is a call of check_rate_limit(request)
RateChecked == budget' < budget /\ resp'.op = "check_rate_limit"

\* The window and the maximum of the class of the path the step asks for
AskedWindow == limits[limit_key(resp'.req.endpoint)].window
AskedMax == limits[limit_key(resp'.req.endpoint)].requests

\* C21: when no request of the IP has been admitted for at least the window of
\* class c, the IP's next request of class c is admitted, whatever was
\* recorded or rejected for the IP before: a rejected request does not prolong
\* the block.
C21_AdmittedAfterQuietWindow ==
    [][(RateChecked /\
        \A e \in BagToSet(hist.admitted) :
            e.ip = resp'.ip => now - e.t >= AskedWindow)
          => resp'.status = 200]_vars

\* A register request is admitted a window after the third admission although
\* a fourth request of the IP had been rejected in between.
C21_Witness ==
    /\ resp.op = "check_rate_limit"
    /\ resp.status = 200
    /\ resp.req.endpoint = "/auth/register"
    /\ \E r \in hist.rejected :
          r.ip = resp.ip /\ r.cls = "auth_register" /\ r.t < resp.at
    /\ Cardinality({e \in BagToSet(hist.admitted) :
                       e.ip = resp.ip /\ e.cls = "auth_register"}) >= 2

-----------------------------------------------------------------------------
(* The concurrent rate-limiter specification.  check_rate_limit(request)   *)
(* is a synchronous dependency, so the server runs it in a worker thread   *)
(* of its thread pool; RateLimiter holds no lock, so the statements of two *)
(* calls interleave.  One action is one statement of                       *)
(* RateLimiter.check_rate_limit run by one thread.                         *)

MaxConcCalls == 4
ConcEndpoints == {"/auth/register"}

\* A thread enters rate_limiter.check_rate_limit(client_ip, endpoint)
CallEnter(th, ip, endpoint) ==
    /\ budget > 0
    /\ calls[th].pc = "idle"
    /\ budget' = budget - 1
    /\ calls' = [calls EXCEPT ![th] = [IdleCall EXCEPT !.pc = "clean",
                                           !.ip = ip, !.endpoint = endpoint]]
    /\ UNCHANGED <<now, dbVars, limiterVars, jwksVars, pyjwt_exp_inclusive, utc_offset, db_pool,
                   resp, audit, hist>>

\* _clean_old_requests: the list comprehension builds the new list
CallClean(th) ==
    LET c == calls[th]
        window == limits[limit_key(c.endpoint)].window
    IN /\ c.pc = "clean"
       /\ calls' = [calls EXCEPT ![th].pc = "store",
                        ![th].kept = clean_old_requests(requests, c.ip, window, now)]
       /\ UNCHANGED <<now, dbVars, limiterVars, jwksVars, pyjwt_exp_inclusive, utc_offset, db_pool,
                      resp, audit, hist, budget>>

\* _clean_old_requests: self.requests[ip] = the new list
CallStore(th) ==
    LET c == calls[th]
    IN /\ c.pc = "store"
       /\ requests' = [requests EXCEPT ![c.ip] = c.kept]
       /\ calls' = [calls EXCEPT ![th].pc = "count"]
       /\ UNCHANGED <<now, dbVars, failed_attempts, jwksVars,
                      pyjwt_exp_inclusive, utc_offset, db_pool, resp, audit, hist, budget>>

\* recent_requests = len([...])
CallCount(th) ==
    LET c == calls[th]
        window == limits[limit_key(c.endpoint)].window
        Recent(e) == now - e[1] < window
    IN /\ c.pc = "count"
       /\ calls' = [calls EXCEPT ![th].pc = "decide",
                        ![th].recent_requests = Len(SelectSeq(requests[c.ip], Recent))]
       /\ UNCHANGED <<now, dbVars, limiterVars, jwksVars, pyjwt_exp_inclusive, utc_offset, db_pool,
                      resp, audit, hist, budget>>

\* The comparison with max_requests, the append, and the answer of the
\* dependency
CallDecide(th) ==
    LET c == calls[th]
        cls == limit_key(c.endpoint)
        config == limits[cls]
        allowed == ~(c.recent_requests >= config.requests)
        prior == AdmittedWithin(hist, c.ip, cls, config.window, now)
        req == [NoReq EXCEPT !.endpoint = c.endpoint]
    IN /\ c.pc = "decide"
       /\ calls' = [calls EXCEPT ![th] = IdleCall]
       /\ requests' = IF allowed
                      THEN [requests EXCEPT ![c.ip] = Append(@, <<now, c.endpoint>>)]
                      ELSE requests
       /\ resp' = IF allowed
                  THEN [Response("check_rate_limit", c.ip, 200, Detail("-", "-"),
                                 "-", NoTokens, req)
                        EXCEPT !.prior = prior]
                  ELSE [RateLimitResponse("check_rate_limit", c.ip, req,
                                          config.window)
                        EXCEPT !.prior = prior]
       /\ hist' = IF allowed
                  THEN [hist EXCEPT !.admitted =
                            @ (+) SetToBag({[ip |-> c.ip, cls |-> cls, t |-> now]})]
                  ELSE hist
       /\ UNCHANGED <<now, dbVars, failed_attempts, jwksVars,
                      pyjwt_exp_inclusive, utc_offset, db_pool, audit, budget>>

InitConc ==
    /\ InitCommon
    /\ budget = MaxConcCalls
    /\ users = {}
    /\ sessions = {}
    /\ transactions = {}
    /\ idp_keys = {}
    /\ pyjwt_exp_inclusive = TRUE
    /\ utc_offset = 0
    /\ db_pool = SimpleConnectionPool

NextConc ==
    \/ \E th \in Threads, ip \in IPs, endpoint \in ConcEndpoints :
            CallEnter(th, ip, endpoint)
    \/ \E th \in Threads : CallClean(th)
    \/ \E th \in Threads : CallStore(th)
    \/ \E th \in Threads : CallCount(th)
    \/ \E th \in Threads : CallDecide(th)

SpecConc == InitConc /\ [][NextConc]_vars

\* The entries of ip in RateLimiter.requests that belong to class cls and are
\* younger than the class's window
StoredWithin(ip, cls, t) ==
    LET Mine(e) == limit_key(e[2]) = cls /\ t - e[1] < limits[cls].window
    IN Len(SelectSeq(requests[ip], Mine))

\* C11: when calls of the rate-limit check from one IP run concurrently, the
\* purge, the count and the append of one call take effect as a unit: no
\* admitted request's entry is lost from the IP's list, and the requests
\* admitted within the window never exceed the class's maximum.
C11_ChecksAreAtomic ==
    \A ip \in IPs, cls \in DOMAIN limits :
        /\ AdmittedWithin(hist, ip, cls, limits[cls].window, now)
                <= limits[cls].requests
        /\ StoredWithin(ip, cls, now)
                = AdmittedWithin(hist, ip, cls, limits[cls].window, now)

-----------------------------------------------------------------------------
(* The token-service specification: verify_token called on any token, and  *)
(* GET /auth/me, at instants around the expiry of the tokens.              *)

\* Requests served in a run of the token specification
MaxTokReq == 2

TokClock == {0, 1, 1799, 1800, 1801, 3599, 3600, 3601, 604799, 604800, 604801}

\* verify_token(token, token_type), called on its own
VerifyToken(token, token_type) ==
    LET v == verify_token(token, token_type, now, pyjwt_exp_inclusive)
        req == [NoReq EXCEPT !.token = {token}, !.endpoint = token_type]
    IN /\ resp' = Response("verify_token", "-", 0, Detail(v.kind, v.exc),
                           v.payload.sub, NoTokens, req)
       /\ UNCHANGED <<now, dbVars, limiterVars, jwksVars,
                      pyjwt_exp_inclusive, utc_offset, db_pool, calls, audit, hist, budget>>

\* GET /auth/me: get_current_user, then the profile of the row it returned
GetMe(token) ==
    LET cu == get_current_user(token, users, now, pyjwt_exp_inclusive)
        req == [NoReq EXCEPT !.token = {token}, !.endpoint = "/auth/me"]
    IN /\ budget > 0
       /\ budget' = budget - 1
       /\ resp' = Response("me", "-", cu.status, cu.detail, cu.user.user_id,
                           NoTokens, [req EXCEPT !.email = cu.user.email])
       /\ audit' = << >>
       /\ UNCHANGED <<now, dbVars, limiterVars, jwksVars,
                      pyjwt_exp_inclusive, utc_offset, db_pool, calls, hist>>

TokTick ==
    /\ \E t \in TokClock : t > now /\ now' = t
    /\ UNCHANGED <<dbVars, limiterVars, jwksVars, pyjwt_exp_inclusive, utc_offset, db_pool, calls, resp,
                   audit, hist, budget>>

InitTok ==
    /\ InitCommon
    /\ budget = MaxTokReq
    /\ users = SeedUsers
    /\ sessions = {}
    /\ transactions = {}
    /\ idp_keys = {}
    /\ pyjwt_exp_inclusive \in BOOLEAN
    /\ utc_offset = 0
    /\ db_pool = SimpleConnectionPool

NextTok ==
    \/ \E token \in LocalInputs(now), token_type \in {"access", "refresh"} :
          VerifyToken(token, token_type)
    \/ \E token \in LocalInputs(now) : GetMe(token)
    \/ TokTick

SpecTok == InitTok /\ [][NextTok]_vars

\* The token of the most recent request
Presented == CHOOSE tok \in resp.req.token : TRUE

\* C8: an access token fails verify_token(.., "refresh") and a refresh token
\* fails verify_token(.., "access") (None is returned), so a refresh token
\* never authorizes a request through get_current_user.
C8_PurposeDiscriminated ==
    /\ (resp.op = "verify_token" /\ Presented \in AccessTokens
          /\ resp.req.endpoint = "refresh") => resp.detail.text = "None"
    /\ (resp.op = "verify_token" /\ Presented \in RefreshTokens
          /\ resp.req.endpoint = "access") => resp.detail.text = "None"
    /\ (resp.op = "me" /\ Presented \in RefreshTokens) => resp.status = 401

\* C8's case: an unexpired refresh token of the active user was presented to
\* GET /auth/me (and refused).
C8_Witness ==
    /\ resp.op = "me"
    /\ Presented \in RefreshTokens
    /\ Presented.payload.sub = "u1"
    /\ Presented.payload.exp > resp.at
    /\ resp.status = 401

\* C9: verify_token never returns a payload once the clock is past the token's
\* exp, whatever its signature; before exp, a token the program issued is
\* accepted for its own purpose.
C9_ExpiryEnforced ==
    resp.op = "verify_token" =>
        /\ resp.at > Presented.payload.exp => resp.detail.text # "payload"
        /\ (resp.at < Presented.payload.exp /\
            \/ Presented \in AccessTokens /\ resp.req.endpoint = "access"
            \/ Presented \in RefreshTokens /\ resp.req.endpoint = "refresh")
           => (resp.detail.text = "payload" /\
               resp.user_id = Presented.payload.sub)

\* C9's case: an access token with a valid signature was verified for its own
\* purpose after its expiry.
C9_Witness ==
    /\ resp.op = "verify_token"
    /\ Presented \in AccessTokens
    /\ resp.req.endpoint = "access"
    /\ resp.at > Presented.payload.exp
    /\ resp.detail.text = "None"

\* C9's other case: a refresh token verified one second before its expiry.
C9_WitnessBefore ==
    /\ resp.op = "verify_token"
    /\ Presented \in RefreshTokens
    /\ resp.req.endpoint = "refresh"
    /\ resp.at = Presented.payload.exp - 1
    /\ resp.detail.text = "payload"

\* C10: verify_token returns None and raises nothing for a token that is
\* malformed or whose signature is invalid, and get_current_user answers such
\* a token with 401 "Invalid or expired token".
C10_BadTokenIsNone ==
    (resp.req.token # {} /\
     Presented \in ForgedTokens \cup {MalformedToken}) =>
        /\ resp.op = "verify_token" => resp.detail.text = "None"
        /\ resp.op = "me" =>
              (resp.status = 401 /\
               resp.detail.text = "Invalid or expired token")

-----------------------------------------------------------------------------
(* The auth endpoints                                                      *)

\* Requests served in a run of the auth specification
MaxReq == 2

\* Register requests of the runs: <<ip, email, password, full_name>>
RegisterInputs ==
    {<<"10.0.0.1", "c@x.com", PwValidPass, "Cy">>,
     <<"10.0.0.2", "c@x.com", PwValidPass, " <script>x</script>Cy">>,
     <<"10.0.0.1", "a@x.com", PwValidPass, "Ann">>,
     <<"10.0.0.1", "a@x.com", PwShort, "Ann">>,
     <<"10.0.0.1", "not-an-email", PwValidPass, "Cy">>,
     <<"10.0.0.1", "c@x.com", PwShort, "Cy">>,
     <<"10.0.0.1", "c@x.com", PwNoDigits, "Cy">>,
     <<"10.0.0.1", "c@x.com", PwValidPass, "">>}
\* Login requests of the runs: <<ip, email, password>>
LoginInputs ==
    {<<"10.0.0.1", "a@x.com", PwAbcdef>>, <<"10.0.0.1", "a@x.com", PwValidPass>>,
     <<"10.0.0.1", "b@x.com", PwValidPass>>, <<"10.0.0.1", "c@x.com", PwValidPass>>,
     <<"10.0.0.2", "c@x.com", PwValidPass>>,
     <<"10.0.0.1", "not-an-email", PwAbcdef>>}
\* Password changes of the runs: <<current_password, new_password>>
PasswordChanges ==
    {<<PwAbcdef, PwValidPass>>, <<PwValidPass, PwAbcdef>>, <<PwAbcdef, PwShort>>}
NewUserIds == {"u3", "u4"}
NewSessionIds == {"s9"}

\* pydantic's EmailStr on the addresses of the runs
EmailStrOk(email) == email \in {"a@x.com", "b@x.com", "c@x.com"}

\* sanitize_string on the names of the runs: the script element is removed and
\* the result stripped
sanitize_string(input_str) ==
    CASE input_str = " <script>x</script>Cy" -> "Cy"
      [] OTHER -> input_str

\* UserRegister: the field constraints, then the password validator
UserRegisterOk(email, password, full_name) ==
    /\ EmailStrOk(email)
    /\ Len(password) >= MIN_PASSWORD_LENGTH
    /\ Len(password) <= MAX_PASSWORD_LENGTH
    /\ full_name # ""
    /\ validate_password_strength(password).ok

\* PasswordChange: the field constraints, then the new_password validator
PasswordChangeOk(new_password) ==
    /\ Len(new_password) >= MIN_PASSWORD_LENGTH
    /\ Len(new_password) <= MAX_PASSWORD_LENGTH
    /\ validate_password_strength(new_password).ok

\* get_db_connection without the rollback of its except clause: the writes
\* made before the exception stay.
get_db_connection_NoRollback(raised, before, at_exit) == at_exit

\* get_db_connection(): what a table holds once the with block is left, given
\* what it held before the block and what the transaction had written when
\* the block was left.  An exception leaving the block rolls the transaction
\* back; otherwise the block has committed.
get_db_connection(raised, before, at_exit) == IF raised THEN before ELSE at_exit

SessionRow(session_id, user_id, access_token, refresh_token, expires_at, created_at, ip) ==
    [session_id |-> session_id, user_id |-> user_id,
     access_token_hash |-> hash_token(access_token),
     refresh_token_hash |-> hash_token(refresh_token),
     expires_at |-> expires_at, created_at |-> created_at, ip_address |-> ip]

\* DELETE FROM auth_sessions that removes one session of the user only
delete_sessions_OneOnly(tbl, user_id) ==
    LET mine == {x \in tbl : x.user_id = user_id}
    IN IF mine = {} THEN tbl ELSE tbl \ {CHOOSE x \in mine : TRUE}

\* DELETE FROM auth_sessions WHERE user_id = %s
delete_sessions(tbl, user_id) == {x \in tbl : x.user_id # user_id}

\* The rows auth_sessions holds when the program starts
SeedSessions ==
    {SessionRow("s1", "u1", create_access_token("u1", 0),
                create_refresh_token("u1", 0), RefreshLifetime, 0, "10.0.0.1"),
     SessionRow("s2", "u1", create_access_token("u1", 0),
                create_refresh_token("u1", 0), RefreshLifetime, 0, "10.0.0.2"),
     SessionRow("s3", "u2", create_access_token("u2", 0),
                create_refresh_token("u2", 0), RefreshLifetime, 0, "10.0.0.2")}

\* POST /auth/register
Register(ip, email, password, full_name) ==
    LET rl == rl_check_rate_limit(requests, ip, "/auth/register", now)
        req == [NoReq EXCEPT !.email = email, !.password = password,
                             !.full_name = full_name,
                             !.endpoint = "/auth/register"]
    IN
    /\ budget > 0
    /\ budget' = budget - 1
    /\ requests' = rl.requests
    /\ audit' = << >>
    /\ IF ~rl.allowed
       THEN /\ resp' = RateLimitResponse("register", ip, req, rl.window)
            /\ UNCHANGED <<users, sessions, hist>>
       ELSE IF ~UserRegisterOk(email, password, full_name)
       THEN /\ resp' = ValidationResponse("register", ip, req)
            /\ UNCHANGED <<users, sessions, hist>>
       ELSE IF UsersByEmail(users, email) # {}
       THEN /\ resp' = Response("register", ip, 400,
                                Detail("Email already registered", "-"), "-",
                                NoTokens, req)
            /\ UNCHANGED <<users, sessions, hist>>
       ELSE \E user_id \in NewUserIds \ {u.user_id : u \in users},
               session_id \in NewSessionIds \ {x.session_id : x \in sessions} :
            LET row == [UserRow(user_id, email, password,
                                sanitize_string(full_name), 1)
                        EXCEPT !.created_at = LocalNow, !.updated_at = LocalNow]
                access_token == create_access_token(user_id, now)
                refresh_token == create_refresh_token(user_id, now)
                \* expires_at is datetime.utcnow() + 7 days, created_at the
                \* datetime.now() read for the user row
                session == SessionRow(session_id, user_id, access_token,
                                      refresh_token, now + RefreshLifetime,
                                      LocalNow, ip)
                \* the session INSERT runs on the cursor the with block has
                \* closed, and with "?" placeholders
                raised == CursorClosedAfterWith \/ QmarkPlaceholdersRejected
            IN /\ users' = get_db_connection(raised, users, users \cup {row})
               /\ sessions' = get_db_connection(raised, sessions,
                                  IF raised THEN sessions
                                  ELSE sessions \cup {session})
               /\ resp' = [IF raised
                           THEN ServerErrorResponse("register", ip, req,
                                                    "psycopg2.InterfaceError")
                           ELSE Response("register", ip, 200, Detail("-", "-"),
                                         user_id,
                                         {[access |-> access_token,
                                           refresh |-> refresh_token]}, req)
                           EXCEPT !.session = {session}]
               /\ hist' = [hist EXCEPT !.registered =
                              @ \cup {[email |-> email, password |-> password,
                                       user_id |-> user_id]}]
    /\ UNCHANGED <<now, transactions, tx_seq, failed_attempts, jwksVars,
                   pyjwt_exp_inclusive, utc_offset, db_pool, calls>>

\* A login that tells an unknown address from a wrong password
login_failure_Oracle(found, ip, email) ==
    IF found = {}
    THEN [status |-> 404, detail |-> "User not found", recorded |-> FALSE,
          audit |-> <<AuditRecord("AUTH_FAILURE", "-", ip, email, "Unknown user")>>]
    ELSE [status |-> 401, detail |-> "Invalid email or password",
          recorded |-> TRUE,
          audit |-> <<AuditRecord("AUTH_FAILURE", "-", ip, email,
                                  "Invalid credentials")>>]

\* login_user, the branch "if not user or not verify_password(...)": the
\* failed attempt is recorded, the failure audited and 401 raised, whatever
\* the SELECT found
login_failure(found, ip, email) ==
    [status |-> 401, detail |-> "Invalid email or password", recorded |-> TRUE,
     audit |-> <<AuditRecord("AUTH_FAILURE", "-", ip, email,
                             "Invalid credentials")>>]

\* POST /auth/login; emit_ok tells whether the audit record of the request,
\* if it logs one, can be written
LoginWith(ip, email, password, emit_ok) ==
    LET rl == rl_check_rate_limit(requests, ip, "/auth/login", now)
        req == [NoReq EXCEPT !.email = email, !.password = password,
                             !.endpoint = "/auth/login"]
        prior == FailuresWithin(hist, ip, now)
        R(status, text, user_id, tokens) ==
            [Response("login", ip, status, Detail(text, "-"), user_id, tokens,
                      req) EXCEPT !.prior_failed = prior, !.logged = emit_ok]
        E(exc) ==
            [ServerErrorResponse("login", ip, req, exc)
             EXCEPT !.prior_failed = prior, !.logged = emit_ok]
        fa == check_failed_attempts(failed_attempts, ip, now)
        found == UsersByEmail(users, email)
    IN
    /\ budget > 0
    /\ budget' = budget - 1
    /\ requests' = rl.requests
    /\ IF ~rl.allowed
       THEN /\ resp' = [RateLimitResponse("login", ip, req, rl.window)
                        EXCEPT !.prior_failed = prior, !.logged = emit_ok]
            /\ audit' = << >>
            /\ UNCHANGED <<users, sessions, failed_attempts, hist>>
       ELSE IF ~EmailStrOk(email)
       THEN /\ resp' = [ValidationResponse("login", ip, req)
                        EXCEPT !.prior_failed = prior, !.logged = emit_ok]
            /\ audit' = << >>
            /\ UNCHANGED <<users, sessions, failed_attempts, hist>>
       ELSE IF ~fa.ok
       THEN LET lg == log_event(AuditRecord("SUSPICIOUS_ACTIVITY", "-", ip,
                                            NoEmail,
                                            "Too many failed login attempts"),
                                emit_ok) IN
            /\ failed_attempts' = fa.failed
            /\ audit' = lg.emitted
            /\ resp' = IF lg.raised THEN E("log_event")
                       ELSE R(429, "Too many failed login attempts. Please try again later.",
                              "-", NoTokens)
            /\ UNCHANGED <<users, sessions, hist>>
       ELSE IF found = {} \/
               ~verify_password(password,
                                (CHOOSE u \in found : TRUE).password_hash)
       THEN LET f == login_failure(found, ip, email)
                lg == log_event(f.audit[1], emit_ok) IN
            /\ failed_attempts' = IF f.recorded
                                  THEN record_failed_attempt(fa.failed, ip, now)
                                  ELSE fa.failed
            /\ audit' = lg.emitted
            /\ resp' = IF lg.raised THEN E("log_event")
                       ELSE R(f.status, f.detail, "-", NoTokens)
            /\ hist' = IF f.recorded
                       THEN [hist EXCEPT !.failures =
                                @ (+) SetToBag({[ip |-> ip, t |-> now]})]
                       ELSE hist
            /\ UNCHANGED <<users, sessions>>
       ELSE LET user == CHOOSE u \in found : TRUE IN
            IF user.is_active = 0
            THEN LET lg == log_event(AuditRecord("AUTH_FAILURE", "-", ip, email,
                                                 "Account disabled"), emit_ok) IN
                 /\ failed_attempts' = fa.failed
                 /\ audit' = lg.emitted
                 /\ resp' = IF lg.raised THEN E("log_event")
                            ELSE R(403, "Account has been disabled", "-", NoTokens)
                 /\ UNCHANGED <<users, sessions, hist>>
            ELSE \E session_id \in
                        NewSessionIds \ {x.session_id : x \in sessions} :
                 LET access_token == create_access_token(user.user_id, now)
                     refresh_token == create_refresh_token(user.user_id, now)
                     session == SessionRow(session_id, user.user_id,
                                           access_token, refresh_token,
                                           now + RefreshLifetime, LocalNow, ip)
                     updated == (users \ {user}) \cup
                                {[user EXCEPT !.last_login_at = LocalNow]}
                     lg == log_event(AuditRecord("AUTH_SUCCESS", user.user_id,
                                                 ip, NoEmail, "login"), emit_ok)
                     \* the UPDATE runs on the cursor the with block closed
                     raised == lg.raised \/ CursorClosedAfterWith
                 IN /\ failed_attempts' = fa.failed
                    /\ audit' = lg.emitted
                    /\ users' = get_db_connection(raised, users,
                                       IF raised THEN users ELSE updated)
                    /\ sessions' = get_db_connection(raised, sessions,
                                       IF raised THEN sessions
                                       ELSE sessions \cup {session})
                    /\ resp' = IF lg.raised THEN E("log_event")
                               ELSE IF raised THEN E("psycopg2.InterfaceError")
                               ELSE [R(200, "-", user.user_id,
                                       {[access |-> access_token,
                                         refresh |-> refresh_token]})
                                     EXCEPT !.session = {session}]
                    /\ UNCHANGED hist
    /\ UNCHANGED <<now, transactions, tx_seq, jwksVars, pyjwt_exp_inclusive,
                   utc_offset, db_pool, calls>>

\* POST /auth/login when the audit record can be written
Login(ip, email, password) == LoginWith(ip, email, password, TRUE)

\* POST /auth/login when writing the audit record fails
LoginLogFailure(ip, email, password) == LoginWith(ip, email, password, FALSE)

\* POST /auth/logout
Logout(token) ==
    LET cu == get_current_user(token, users, now, pyjwt_exp_inclusive)
        req == [NoReq EXCEPT !.token = {token}, !.endpoint = "/auth/logout"]
    IN
    /\ budget > 0
    /\ budget' = budget - 1
    /\ audit' = << >>
    /\ IF cu.status # 200
       THEN /\ resp' = Response("logout", "-", cu.status, cu.detail, "-",
                                NoTokens, req)
            /\ UNCHANGED <<sessions, hist>>
       ELSE /\ sessions' = delete_sessions(sessions, cu.user.user_id)
            /\ resp' = Response("logout", "-", 200,
                                Detail("Successfully logged out", "-"),
                                cu.user.user_id, NoTokens, req)
            /\ hist' = [hist EXCEPT !.logouts =
                           @ \cup {[user_id |-> cu.user.user_id, at |-> now]}]
    /\ UNCHANGED <<now, users, transactions, tx_seq, limiterVars, jwksVars,
                   pyjwt_exp_inclusive, utc_offset, db_pool, calls>>

\* The request bodies of PUT /auth/me in the runs: dicts key -> value
ProfileUpdates ==
    {("full_name" :> "Zed"),
     ("business_name" :> "Biz"),
     ("full_name" :> "Zed" @@ "email" :> "evil@x.com"),
     ("email" :> "evil@x.com"),
     << >>}

\* allowed_fields with the address among them
allowed_fields_WithEmail == {"full_name", "business_name", "email"}

\* allowed_fields of update_user_profile
allowed_fields == {"full_name", "business_name"}

\* PUT /auth/me
UpdateProfile(token, updates) ==
    LET cu == get_current_user(token, users, now, pyjwt_exp_inclusive)
        req == [NoReq EXCEPT !.token = {token}, !.endpoint = "/auth/me"]
        update_data == [k \in DOMAIN updates \cap allowed_fields |-> updates[k]]
        \* UPDATE users SET <k = %s for k in update_data>, updated_at = %s
        Set(row) ==
            [c \in DOMAIN row |->
                IF c \in DOMAIN update_data THEN update_data[c]
                ELSE IF c = "updated_at" THEN LocalNow
                ELSE row[c]]
    IN
    /\ budget > 0
    /\ budget' = budget - 1
    /\ audit' = << >>
    /\ IF cu.status # 200
       THEN /\ resp' = [Response("update_profile", "-", cu.status, cu.detail,
                                 "-", NoTokens, req) EXCEPT !.body = {updates}]
            /\ UNCHANGED users
       ELSE IF DOMAIN update_data = {}
       THEN /\ resp' = [Response("update_profile", "-", 400,
                                 Detail("No valid fields to update", "-"),
                                 cu.user.user_id, NoTokens, req)
                        EXCEPT !.body = {updates}]
            /\ UNCHANGED users
       ELSE /\ users' = {IF u.user_id = cu.user.user_id THEN Set(u) ELSE u
                            : u \in users}
            /\ resp' = [Response("update_profile", "-", 200,
                                 Detail("Profile updated successfully", "-"),
                                 cu.user.user_id, NoTokens, req)
                        EXCEPT !.body = {updates}]
    /\ UNCHANGED <<now, sessions, transactions, tx_seq, limiterVars, jwksVars,
                   pyjwt_exp_inclusive, utc_offset, db_pool, calls, hist>>

\* POST /auth/change-password
ChangePassword(token, current_password, new_password) ==
    LET cu == get_current_user(token, users, now, pyjwt_exp_inclusive)
        req == [NoReq EXCEPT !.token = {token}, !.password = current_password,
                             !.new_password = new_password,
                             !.endpoint = "/auth/change-password"]
        R(status, text) ==
            Response("change_password", "-", status, Detail(text, "-"),
                     cu.user.user_id, NoTokens, req)
        updated == {IF u.user_id = cu.user.user_id
                    THEN [u EXCEPT !.password_hash = hash_password(new_password),
                                   !.updated_at = LocalNow]
                    ELSE u : u \in users}
        \* the UPDATE runs on the cursor the with block has closed
        raised == CursorClosedAfterWith
    IN
    /\ budget > 0
    /\ budget' = budget - 1
    /\ audit' = << >>
    /\ IF cu.status # 200
       THEN /\ resp' = Response("change_password", "-", cu.status, cu.detail,
                                "-", NoTokens, req)
            /\ UNCHANGED <<users, sessions, hist>>
       ELSE IF ~PasswordChangeOk(new_password)
       THEN /\ resp' = ValidationResponse("change_password", "-", req)
            /\ UNCHANGED <<users, sessions, hist>>
       ELSE IF ~verify_password(current_password, cu.user.password_hash)
       THEN /\ resp' = R(400, "Current password is incorrect")
            /\ UNCHANGED <<users, sessions, hist>>
       ELSE /\ users' = get_db_connection(raised, users,
                              IF raised THEN users ELSE updated)
            /\ sessions' = get_db_connection(raised, sessions,
                              IF raised THEN sessions
                              ELSE delete_sessions(sessions, cu.user.user_id))
            /\ resp' = IF raised
                       THEN [ServerErrorResponse("change_password", "-", req,
                                                 "psycopg2.InterfaceError")
                             EXCEPT !.user_id = cu.user.user_id]
                       ELSE R(200, "Password changed successfully. Please login again.")
            /\ hist' = [hist EXCEPT !.pw_changes =
                           @ \cup {[user_id |-> cu.user.user_id, at |-> now]}]
    /\ UNCHANGED <<now, transactions, tx_seq, limiterVars, jwksVars,
                   pyjwt_exp_inclusive, utc_offset, db_pool, calls>>

\* Tokens presented in the runs of the auth specification at time t
AuthInputs(t) ==
    AccessTokensOf({i \in IssueTimes : i <= t})
        \cup RefreshTokensOf({0}) \cup ForgedTokensOf({0}) \cup {MalformedToken}

\* Instants of the runs of the auth specification
AuthClock == {0, 60, 1800, 3600}

Tick ==
    /\ budget > 0
    /\ \E t \in AuthClock : t > now /\ now' = t
    /\ UNCHANGED <<dbVars, limiterVars, jwksVars, pyjwt_exp_inclusive, utc_offset, db_pool, calls, resp,
                   audit, hist, budget>>

\* users and auth_sessions are tables the program expects to exist: it
\* creates neither, so the runs start from rows that are already there.
Init ==
    /\ InitCommon
    /\ budget = MaxReq
    /\ users = SeedUsers
    /\ sessions = SeedSessions
    /\ transactions = {}
    /\ idp_keys = {}
    /\ pyjwt_exp_inclusive \in BOOLEAN
    /\ utc_offset \in UtcOffsets
    /\ db_pool = SimpleConnectionPool

Next ==
    \/ \E r \in RegisterInputs : Register(r[1], r[2], r[3], r[4])
    \/ \E l \in LoginInputs : Login(l[1], l[2], l[3])
    \/ \E l \in LoginInputs : LoginLogFailure(l[1], l[2], l[3])
    \/ \E token \in AuthInputs(now) : Logout(token)
    \/ \E token \in AuthInputs(now) : GetMe(token)
    \/ \E token \in AuthInputs(now), updates \in ProfileUpdates :
          UpdateProfile(token, updates)
    \/ \E token \in AuthInputs(now), p \in PasswordChanges :
          ChangePassword(token, p[1], p[2])
    \/ Tick

Spec == Init /\ [][Next]_vars

\* C1: after a register request with valid input and an unused email has
\* returned, a login with the same email and password that is not throttled
\* is answered 200 with an access and a refresh token whose subject is the
\* user id that registration created.
C1_RegisterThenLogin ==
    \A r \in hist.registered :
        (resp.op = "login" /\ resp.req.email = r.email /\
         resp.req.password = r.password /\ resp.status # 429)
            => /\ resp.status = 200
               /\ resp.tokens # {}
               /\ \A tk \in resp.tokens :
                     /\ tk.access.payload.sub = r.user_id
                     /\ tk.refresh.payload.sub = r.user_id

Served(ops) == budget' < budget /\ resp'.op \in ops

\* C12: register and login are each one transaction: a request that fails
\* after its first write leaves users and auth_sessions as they were, so no
\* user row of a registration stays without its session row and no
\* last-login update stays without the session insert.
C12_FailedRequestWritesNothing ==
    [][(Served({"register", "login"}) /\ resp'.status # 200)
          => (users' = users /\ sessions' = sessions)]_vars

\* A registration with a new email failed after the user INSERT, and no row
\* with that email is stored.
C12_Witness ==
    /\ resp.op = "register"
    /\ resp.status = 500
    /\ resp.detail.inner = "psycopg2.InterfaceError"
    /\ UsersByEmail(users, resp.req.email) = {}

\* The register request of the step carries an email a stored user has
DuplicateRegister ==
    Served({"register"}) /\ \E u \in users : u.email = resp'.req.email

\* Nothing is written and no tokens are returned
RegisterRefused ==
    users' = users /\ sessions' = sessions /\ resp'.tokens = NoTokens

\* C13: a register request with the email of a stored user leaves users and
\* auth_sessions unchanged and returns no tokens; when it reaches the handler
\* (the rate limit admits it and its body is valid) it fails with 400 "Email
\* already registered", and when it does not, with the 429 or 422 of the
\* stage that turned it away.
C13_DuplicateEmailRefused ==
    [][DuplicateRegister
          => /\ RegisterRefused
             /\ resp'.status \in {400, 422, 429}
             /\ (resp'.status # 429 /\
                 UserRegisterOk(resp'.req.email, resp'.req.password,
                                resp'.req.full_name))
                   => /\ resp'.status = 400
                      /\ resp'.detail.text = "Email already registered"]_vars

\* A valid register request with the email of a seeded user was answered 400.
C13_Witness ==
    /\ resp.op = "register"
    /\ resp.req.email = "a@x.com"
    /\ resp.status = 400
    /\ resp.detail.text = "Email already registered"
    /\ users = SeedUsers /\ sessions = SeedSessions

\* C14: after a successful logout of user u no row of auth_sessions has
\* user_id u, and the rows of the other users are as they were.
C14_LogoutDeletesOwnSessions ==
    [][(Served({"logout"}) /\ resp'.status = 200)
          => /\ \A x \in sessions' : x.user_id # resp'.user_id
             /\ {x \in sessions' : x.user_id # resp'.user_id}
                    = {x \in sessions : x.user_id # resp'.user_id}]_vars

\* A logout removed the two sessions of u1 and left the session of u2.
C14_Witness ==
    /\ resp.op = "logout"
    /\ resp.status = 200
    /\ resp.user_id = "u1"
    /\ Cardinality({x \in SeedSessions : x.user_id = "u1"}) = 2
    /\ sessions = {x \in SeedSessions : x.user_id = "u2"}
    /\ sessions # {}

\* C15: after a logout of user u deleted u's sessions, an access token issued
\* to u before the logout and not yet expired still authorizes GET /auth/me,
\* as long as u is active.
C15_TokenSurvivesLogout ==
    \A l \in hist.logouts :
        (resp.op = "me" /\ resp.at >= l.at /\
         ActiveUsersById(users, l.user_id) # {} /\
         (\E i \in IssueTimes :
             /\ i <= l.at
             /\ Presented = create_access_token(l.user_id, i)
             /\ resp.at < i + AccessLifetime))
            => (resp.status = 200 /\ resp.user_id = l.user_id)

\* GET /auth/me answered 200 for u1 although no session of u1 is stored.
C15_Witness ==
    /\ resp.op = "me"
    /\ resp.status = 200
    /\ \E l \in hist.logouts : l.user_id = resp.user_id /\ l.at <= resp.at
    /\ \A x \in sessions : x.user_id # resp.user_id

\* The most recent request is a change-password request that met every
\* condition of success: authorized, valid new password, correct current
\* password
ChangeMeetsConditions ==
    /\ resp.op = "change_password"
    /\ resp.status \notin {400, 422}
    /\ [user_id |-> resp.user_id, at |-> resp.at] \in hist.pw_changes

\* C16: a change-password request of an authorized user with the correct
\* current password and a valid new one succeeds; afterwards the stored hash
\* verifies the new password and not the old one, and no session of the user
\* remains.
C16_ChangePasswordTakesEffect ==
    ChangeMeetsConditions
        => /\ resp.status = 200
           /\ \A u \in users :
                 u.user_id = resp.user_id
                    => /\ verify_password(resp.req.new_password, u.password_hash)
                       /\ ~verify_password(resp.req.password, u.password_hash)
           /\ \A x \in sessions : x.user_id # resp.user_id

\* The PASSWORD_CHANGE records among the audit records of the last request
PasswordChangeRecords ==
    SelectSeq(audit, LAMBDA r : r.event_type = "PASSWORD_CHANGE")

BadCredentials ==
    /\ Served({"login"})
    /\ resp'.status \notin {422, 429}
    /\ \A u \in UsersByEmail(users, resp'.req.email) :
          ~verify_password(resp'.req.password, u.password_hash)

\* C18: a login with an unknown email and a login with a known email and a
\* wrong password get the same answer and have the same effects: 401 with
\* one detail, one failed attempt recorded for the IP, one AUTH_FAILURE record
\* with the same reason (none in either case when the record cannot be
\* written), nothing written.  The outcome depends on the request and the
\* limiter alone.
C18_NoAccountOracle ==
    [][BadCredentials
          => /\ resp'.status = 401
             /\ resp'.detail = Detail("Invalid email or password", "-")
             /\ resp'.tokens = NoTokens /\ resp'.user_id = "-"
             /\ failed_attempts' =
                   record_failed_attempt(
                       check_failed_attempts(failed_attempts, resp'.ip, now).failed,
                       resp'.ip, now)
             /\ audit' = IF resp'.logged
                         THEN <<AuditRecord("AUTH_FAILURE", "-", resp'.ip,
                                            resp'.req.email,
                                            "Invalid credentials")>>
                         ELSE << >>
             /\ users' = users /\ sessions' = sessions]_vars

\* A login with an address no user has was answered like a wrong password.
C18_Witness ==
    /\ resp.op = "login"
    /\ UsersByEmail(users, resp.req.email) = {}
    /\ resp.status = 401
    /\ resp.detail.text = "Invalid email or password"
    /\ Len(audit) = 1
    /\ Len(failed_attempts[resp.ip]) > 0

\* The step is a PUT /auth/me of an authorized caller
ProfileServed == Served({"update_profile"}) /\ resp'.user_id # "-"

\* The dict PUT /auth/me received
Updates == CHOOSE d \in resp'.body : TRUE

\* C20: PUT /auth/me changes only the caller's row, and in it only full_name
\* and business_name, each only when the request carries it, and updated_at;
\* other keys are ignored; a request with neither allowed key is answered 400
\* and changes nothing; one mixing allowed and other keys is not rejected.
C20_ProfileUpdateFrame ==
    [][(Served({"update_profile"}) /\ ~ProfileServed => users' = users) /\
       (ProfileServed
          => LET given == DOMAIN Updates \cap {"full_name", "business_name"} IN
             /\ given = {} => (resp'.status = 400 /\ users' = users)
             /\ given # {} => resp'.status = 200
             /\ \A u \in users : u.user_id # resp'.user_id => u \in users'
             /\ Cardinality(users') = Cardinality(users)
             /\ \A u \in users, w \in users' :
                   (u.user_id = resp'.user_id /\ w.user_id = resp'.user_id)
                      => \A c \in DOMAIN u :
                            /\ c \in given => w[c] = Updates[c]
                            /\ c \notin given \cup {"updated_at"} => w[c] = u[c]
                            /\ (c = "updated_at" /\ given # {})
                                  => w[c] = LocalNow)]_vars

\* A request with full_name and email changed the name and kept the address.
C20_Witness ==
    /\ resp.op = "update_profile"
    /\ resp.status = 200
    /\ resp.body = {("full_name" :> "Zed" @@ "email" :> "evil@x.com")}
    /\ \E u \in users : /\ u.user_id = resp.user_id
                        /\ u.full_name = "Zed"
                        /\ u.email = "a@x.com"

C30_SuccessAuditedOnlyOnSuccess ==
    (resp.op = "login" /\ resp.status # 200)
        => \A i \in 1..Len(audit) : audit[i].event_type # "AUTH_SUCCESS"

-----------------------------------------------------------------------------
(* The failed-login throttle                                               *)

\* Login requests served in a run of the throttle specification
MaxLoginReq == 11
\* Clock advances in a run of the throttle specification
MaxThrottleTicks == 2
ThrottleSteps == {300, 3000}
ThrottleLogins ==
    {<<"10.0.0.1", "a@x.com", PwAbcdef>>, <<"10.0.0.1", "a@x.com", PwValidPass>>,
     <<"10.0.0.1", "not-an-email", PwAbcdef>>,
     <<"10.0.0.2", "c@x.com", PwValidPass>>}

ThrottleTick ==
    /\ budget > 0
    /\ hist.ticks < MaxThrottleTicks
    /\ \E d \in ThrottleSteps : now' = now + d
    /\ hist' = [hist EXCEPT !.ticks = @ + 1]
    /\ UNCHANGED <<dbVars, limiterVars, jwksVars, pyjwt_exp_inclusive, utc_offset, db_pool, calls, resp,
                   audit, budget>>

InitThrottle ==
    /\ InitCommon
    /\ budget = MaxLoginReq
    /\ users = SeedUsers
    /\ sessions = SeedSessions
    /\ transactions = {}
    /\ idp_keys = {}
    /\ pyjwt_exp_inclusive = TRUE
    /\ utc_offset = 0
    /\ db_pool = SimpleConnectionPool

NextThrottle ==
    \/ \E l \in ThrottleLogins : Login(l[1], l[2], l[3])
    \/ ThrottleTick

SpecThrottle == InitThrottle /\ [][NextThrottle]_vars

\* The audit records of the most recent request that show a user lookup
LookedUp ==
    \E i \in 1..Len(audit) : audit[i].event_type \in {"AUTH_SUCCESS", "AUTH_FAILURE"}

\* C3: once 10 failed logins of an IP were recorded in the preceding 3600 s,
\* every further login from that IP is answered 429 before the user is looked
\* up, whatever the credentials.
C3_ThrottledAfterTen ==
    (resp.op = "login" /\ resp.prior_failed >= FAILED_MAX_ATTEMPTS)
        => (resp.status = 429 /\ ~LookedUp /\ resp.tokens = {})

\* C3 as amended: the same for every further login whose body passes
\* validation; a body that fails validation is answered 422 or 429, also
\* before any lookup.
C3_ThrottledAfterTen_Amended ==
    (resp.op = "login" /\ resp.prior_failed >= FAILED_MAX_ATTEMPTS)
        => /\ ~LookedUp
           /\ resp.tokens = {}
           /\ IF EmailStrOk(resp.req.email)
              THEN resp.status = 429
              ELSE resp.status \in {422, 429}

\* A login with the correct credentials of the active user is turned away by
\* the throttle while the generic login-class limit has room.
C3_Witness ==
    /\ resp.op = "login"
    /\ resp.prior_failed >= FAILED_MAX_ATTEMPTS
    /\ resp.req.email = "a@x.com" /\ resp.req.password = PwAbcdef
    /\ resp.status = 429
    /\ resp.detail.text = "Too many failed login attempts. Please try again later."

-----------------------------------------------------------------------------
(* The resource endpoints and the external identity provider               *)

\* Requests served in a run of the resource specification
MaxExtReq == 2

NoDate == 0
NoFilter == "-"

TxRow(id, user_id, type, amount, category, date, created_at) ==
    [id |-> id, user_id |-> user_id, type |-> type, amount |-> amount,
     category |-> category, description |-> "", date |-> date,
     payment_method |-> "cash", currency |-> "USD",
     created_at |-> created_at, updated_at |-> created_at]

\* The rows the transactions table holds when the runs start
SeedTransactions ==
    {TxRow(1, "x7", "income", 500, "salary", 1, 10),
     TxRow(2, "x7", "expense", 120, "food", 2, 20),
     TxRow(3, "x7", "expense", 30, "food", 3, 30),
     TxRow(4, "x8", "income", 70, "gift", 2, 40)}

\* The categories of the runs in the order ORDER BY category gives them
CategoryOrder == <<"food", "gift", "salary">>

\* Query strings of the runs; NoFilter and NoDate stand for an absent
\* parameter (None, or the empty string the handlers treat alike)
Queries ==
    {[type |-> NoFilter, category |-> NoFilter, start_date |-> NoDate,
      end_date |-> NoDate, limit |-> 100],
     [type |-> "expense", category |-> "food", start_date |-> 2,
      end_date |-> 3, limit |-> 1],
     [type |-> NoFilter, category |-> NoFilter, start_date |-> 3,
      end_date |-> 2, limit |-> -1]}

RECURSIVE SumAmount(_)
SumAmount(rows) ==
    IF rows = {} THEN 0
    ELSE LET r == CHOOSE x \in rows : TRUE IN r.amount + SumAmount(rows \ {r})

\* ORDER BY date DESC, created_at DESC; rows equal in both come in an order
\* SQL leaves open, here by id
RECURSIVE OrderByDateDesc(_)
OrderByDateDesc(rows) ==
    IF rows = {} THEN << >>
    ELSE LET First(r) ==
                 \A o \in rows \ {r} :
                    \/ r.date > o.date
                    \/ r.date = o.date /\ r.created_at > o.created_at
                    \/ r.date = o.date /\ r.created_at = o.created_at /\ r.id > o.id
             m == CHOOSE r \in rows : First(r)
         IN <<m>> \o OrderByDateDesc(rows \ {m})

\* transactions.user_id is a UUID column: comparing it with a string that is
\* no UUID fails the statement, which the handlers answer with 500.  The
\* identity provider's subjects are UUIDs, the local user ids are not.
IsUuid(user_id) == user_id \in {"x7", "x8"}

\* The WHERE clause get_summary builds
InDates(row, user_id, q) ==
    /\ row.user_id = user_id
    /\ (q.start_date # NoDate => row.date >= q.start_date)
    /\ (q.end_date # NoDate => row.date <= q.end_date)

\* The body of get_transactions once authorized: [status, result]
get_transactions(tbl, user_id, q) ==
    LET hit == {row \in tbl : /\ InDates(row, user_id, q)
                              /\ (q.type # NoFilter => row.type = q.type)
                              /\ (q.category # NoFilter => row.category = q.category)}
        ordered == OrderByDateDesc(hit)
        n == IF q.limit < Len(ordered) THEN q.limit ELSE Len(ordered)
    IN \* a negative LIMIT fails the statement too
       IF q.limit < 0 \/ ~IsUuid(user_id)
       THEN [status |-> 500, result |-> << >>]
       ELSE [status |-> 200, result |-> SubSeq(ordered, 1, n)]

\* A summary over the rows of every user
get_summary_AllUsers(tbl, user_id, q) ==
    LET hit == {row \in tbl :
                   /\ (q.start_date # NoDate => row.date >= q.start_date)
                   /\ (q.end_date # NoDate => row.date <= q.end_date)}
        income == SumAmount({row \in hit : row.type = "income"})
        expenses == SumAmount({row \in hit : row.type = "expense"})
    IN [status |-> IF IsUuid(user_id) THEN 200 ELSE 500,
        result |-> [total_income |-> income, total_expenses |-> expenses,
                    net_balance |-> income - expenses,
                    transaction_count |-> Cardinality(hit)]]

\* The body of get_summary once authorized
get_summary(tbl, user_id, q) ==
    LET hit == {row \in tbl : InDates(row, user_id, q)}
        income == SumAmount({row \in hit : row.type = "income"})
        expenses == SumAmount({row \in hit : row.type = "expense"})
    IN [status |-> IF IsUuid(user_id) THEN 200 ELSE 500,
        result |-> [total_income |-> income, total_expenses |-> expenses,
                    net_balance |-> income - expenses,
                    transaction_count |-> Cardinality(hit)]]

\* The body of get_categories once authorized
get_categories(tbl, user_id) ==
    LET Has(type, c) == \E row \in tbl : /\ row.user_id = user_id
                                         /\ row.category = c
                                         /\ row.type = type
        Income(c) == Has("income", c)
        Other(c) == \E row \in tbl : /\ row.user_id = user_id
                                     /\ row.category = c
                                     /\ row.type # "income"
    IN [status |-> IF IsUuid(user_id) THEN 200 ELSE 500,
        result |-> [income |-> SelectSeq(CategoryOrder, Income),
                    expense |-> SelectSeq(CategoryOrder, Other)]]

\* A request to a resource endpoint: the route's rate-limit dependency, then
\* verify_supabase_token, then the handler's body.  fetch is the outcome the
\* HTTP fetch of the key set has if get_jwks() makes it.
ResourceRequest(op, ip, endpoint, token, q, fetch) ==
    LET rl == rl_check_rate_limit(requests, ip, endpoint, now)
        req == [NoReq EXCEPT !.token = {token}, !.endpoint = endpoint]
        v == verify_supabase_token(token, jwks_cache, jwks_cache_time, now,
                                   fetch, pyjwt_exp_inclusive)
        h == CASE op = "get_transactions" ->
                      get_transactions(transactions, v.identity.user_id, q)
               [] op = "get_summary" ->
                      get_summary(transactions, v.identity.user_id, q)
               [] OTHER -> get_categories(transactions, v.identity.user_id)
    IN
    /\ budget > 0
    /\ budget' = budget - 1
    /\ requests' = rl.requests
    /\ audit' = << >>
    /\ IF ~rl.allowed
       THEN /\ resp' = RateLimitResponse(op, ip, req, rl.window)
            /\ UNCHANGED <<jwks_cache, jwks_cache_time, hist>>
       ELSE /\ jwks_cache' = v.cache
            /\ jwks_cache_time' = v.cache_time
            /\ resp' = [Response(op, ip,
                                 IF v.status = 200 THEN h.status ELSE v.status,
                                 v.detail, v.identity.user_id, NoTokens,
                                 [req EXCEPT !.email = v.identity.email,
                                             !.query =
                                                 IF v.status = 200 THEN {q}
                                                 ELSE {}])
                        EXCEPT !.jwks = v.jwks, !.fetched = v.fetched,
                               !.fetch = fetch,
                               !.cache_time_before =
                                   IF jwks_cache.set THEN jwks_cache_time
                                   ELSE NoTime,
                               !.body = IF v.status = 200 THEN {h.result}
                                        ELSE {}]
            /\ hist' = [hist EXCEPT !.key_misses =
                           IF v.detail.inner = "401: Signing key not found in JWKS"
                              /\ token.sig.key.kty \in {"RSA", "EC"}
                           THEN @ \cup {token} ELSE @,
                                    !.fetches =
                           IF v.fetched /\ fetch.ok
                           THEN @ \cup {[t |-> now, keys |-> fetch.keys]}
                           ELSE @]
    /\ UNCHANGED <<now, dbVars, failed_attempts, idp_keys, pyjwt_exp_inclusive, utc_offset, db_pool, calls>>

\* GET /transactions
GetTransactions(ip, token, q, fetch) ==
    ResourceRequest("get_transactions", ip, "/transactions", token, q, fetch)

\* GET /summary
GetSummary(ip, token, q, fetch) ==
    ResourceRequest("get_summary", ip, "/summary", token, q, fetch)

\* GET /categories
GetCategories(ip, token, fetch) ==
    ResourceRequest("get_categories", ip, "/categories", token,
                    CHOOSE q \in Queries : q.limit = 100, fetch)

\* Key sets the identity provider serves in the runs
KeySets == {{JwkRsa}, {JwkRsa, JwkEc}, {JwkEc, JwkOkp, JwkNoKid}}

\* Expiry instants of the identity provider's tokens in the runs
ExtExpiries == {3600, 7200}

\* A token of the identity provider, signed with the key of jwk
ExternalToken(jwk, alg, sub, email, exp) ==
    jwt_encode([sub |-> sub, exp |-> exp, type |-> NoType, email |-> email],
               KeyOf(jwk), alg, jwk.kid)

\* Tokens the identity provider issued with its RSA and EC keys
GenuineTokens ==
    {ExternalToken(JwkRsa, "RS256", "x7", "x@x.com", e) : e \in ExtExpiries}
        \cup {ExternalToken(JwkEc, "ES256", "x8", "a@x.com", e) : e \in ExtExpiries}

\* Its other tokens: signed with the OKP key, and HS256 tokens signed with
\* the project's JWT secret, also for a deployment that gave SECRET_KEY the
\* same value and a subject that is a local user id
OtherExternalTokens ==
    {ExternalToken(JwkOkp, "EdDSA", "x7", "x@x.com", 7200),
     jwt_encode([sub |-> "u1", exp |-> 7200, type |-> NoType,
                 email |-> "a@x.com"], SUPABASE_JWT_SECRET, ALGORITHM, NoKid),
     jwt_encode([sub |-> "u1", exp |-> 7200, type |-> NoType,
                 email |-> "a@x.com"], SECRET_KEY, ALGORITHM, NoKid)}

ExternalTokens == GenuineTokens \cup OtherExternalTokens

\* Tokens nobody issued: HS256 keyed with the published RSA key, alg "none",
\* and RS256 signed with a key pair of the attacker's under the kid k1
CraftedTokens ==
    LET payload == [sub |-> "x7", exp |-> 7200, type |-> NoType,
                    email |-> "x@x.com"]
    IN {jwt_encode(payload, [kty |-> "oct", id |-> "k1"], "HS256", "k1"),
        jwt_encode(payload, [kty |-> "-", id |-> "-"], "none", "k1"),
        jwt_encode(payload, [kty |-> "RSA", id |-> "attacker"], "RS256", "k1")}

\* Tokens presented in the runs of the resource specification
ExtInputs ==
    ExternalTokens \cup CraftedTokens
        \cup {create_access_token("u1", 0), create_refresh_token("u1", 0),
              MalformedToken}

ExtClock == {0, 3000, 3600}
ExtIPs == {"10.0.0.1"}

\* The identity provider rotates its keys
IdpRotate(keys) ==
    /\ budget > 0
    /\ idp_keys # keys
    /\ idp_keys' = keys
    /\ UNCHANGED <<now, dbVars, limiterVars, jwks_cache, jwks_cache_time,
                   pyjwt_exp_inclusive, utc_offset, db_pool, calls, resp, audit, hist, budget>>

ExtTick ==
    /\ budget > 0
    /\ \E t \in ExtClock : t > now /\ now' = t
    /\ UNCHANGED <<dbVars, limiterVars, jwksVars, pyjwt_exp_inclusive, utc_offset, db_pool, calls, resp,
                   audit, hist, budget>>

InitExt ==
    /\ InitCommon
    /\ budget = MaxExtReq
    /\ users = SeedUsers
    /\ sessions = SeedSessions
    /\ transactions = SeedTransactions
    /\ idp_keys = {JwkRsa}
    /\ pyjwt_exp_inclusive \in BOOLEAN
    /\ utc_offset = 0
    /\ db_pool = SimpleConnectionPool

\* The HTTP fetch of the key set succeeds with what the provider serves, or
\* fails; while the cache is set no more than JWKS_TTL ago the outcome is
\* never looked at, and one stands for both.
Fetches ==
    {[ok |-> ok, keys |-> IF ok THEN idp_keys ELSE {}] :
        ok \in IF jwks_cache.set /\ jwks_cache_time.set
                  /\ now - jwks_cache_time.t <= JWKS_TTL - 1
               THEN {FALSE} ELSE BOOLEAN}

\* The resource requests of these runs carry no filter
ExtQueries == {q \in Queries : q.limit = 100}

NextExt ==
    \/ \E ip \in ExtIPs, token \in ExtInputs, q \in ExtQueries, fetch \in Fetches :
          GetTransactions(ip, token, q, fetch)
    \/ \E ip \in ExtIPs, token \in ExtInputs, q \in ExtQueries, fetch \in Fetches :
          GetSummary(ip, token, q, fetch)
    \/ \E ip \in ExtIPs, token \in ExtInputs, fetch \in Fetches :
          GetCategories(ip, token, fetch)
    \/ \E keys \in KeySets : IdpRotate(keys)
    \/ ExtTick

SpecExt == InitExt /\ [][NextExt]_vars

\* Requests served in a run of the domain specification
MaxDomainReq == 1

\* Tokens of both trust domains, presented to the endpoints of both
DomainInputs ==
    ExternalTokens \cup {create_access_token("u1", 0),
                         create_refresh_token("u1", 0)}

InitDomains ==
    /\ InitCommon
    /\ budget = MaxDomainReq
    /\ users = SeedUsers
    /\ sessions = SeedSessions
    /\ transactions = SeedTransactions
    /\ idp_keys \in KeySets
    /\ pyjwt_exp_inclusive \in BOOLEAN
    /\ utc_offset = 0
    /\ db_pool = SimpleConnectionPool

NextDomains ==
    \/ \E ip \in ExtIPs, token \in DomainInputs, q \in Queries, fetch \in Fetches :
          GetTransactions(ip, token, q, fetch)
    \/ \E ip \in ExtIPs, token \in DomainInputs, q \in Queries, fetch \in Fetches :
          GetSummary(ip, token, q, fetch)
    \/ \E ip \in ExtIPs, token \in DomainInputs, fetch \in Fetches :
          GetCategories(ip, token, fetch)
    \/ \E token \in DomainInputs : GetMe(token)
    \/ \E token \in DomainInputs : Logout(token)
    \/ \E token \in DomainInputs, updates \in ProfileUpdates :
          UpdateProfile(token, updates)
    \/ \E token \in DomainInputs, p \in PasswordChanges :
          ChangePassword(token, p[1], p[2])
    \/ ExtTick

SpecDomains == InitDomains /\ [][NextDomains]_vars

ResourceOps == {"get_transactions", "get_summary", "get_categories"}
ProfileOps == {"me", "logout", "change_password", "update_profile"}

\* The most recent request reached verify_supabase_token with a parseable
\* token
Verified == resp.op \in ResourceOps /\ resp.status # 429 /\ Presented.wellformed

\* The cache held no key set younger than JWKS_TTL when the request came
CacheStale ==
    ~resp.cache_time_before.set \/ resp.at - resp.cache_time_before.t >= JWKS_TTL

\* C5: a token whose kid is not in the key set in use (the fresh cache, or
\* the set just fetched) is answered 401 for the reason "signing key not
\* found"; the cache is refetched exactly when it is absent or JWKS_TTL old;
\* and a token the provider signed, unexpired, whose key is in the set a
\* refetch brought, verifies to its subject and email.
C5_KeyMissThenRefresh ==
    /\ (Verified /\ resp.jwks.set /\
        Presented.kid \notin {k.kid : k \in resp.jwks.keys})
          => /\ resp.status = 401
             /\ resp.detail.inner = "401: Signing key not found in JWKS"
    /\ Verified => (resp.fetched <=> CacheStale)
    /\ (Verified /\ resp.fetched /\ resp.fetch.ok /\
        Presented \in GenuineTokens /\ Presented.payload.exp > resp.at /\
        (\E k \in resp.fetch.keys :
            k.kid = Presented.kid /\ Presented.sig.key = KeyOf(k)))
          => /\ resp.user_id = Presented.payload.sub
             /\ resp.req.email = Presented.payload.email
             /\ resp.status \in {200, 500}
             /\ resp.body # {}

\* A token that was turned away for its missing key is accepted by a request
\* that refetched the key set.
C5_Witness ==
    /\ Verified
    /\ Presented \in hist.key_misses
    /\ resp.fetched /\ resp.cache_time_before.set
    /\ resp.status = 200
    /\ resp.user_id = Presented.payload.sub

\* C6: when no key set can be obtained (no fresh cache and the fetch fails)
\* the caller receives a 500/503 with the reason "unable to fetch", unlike
\* the 401 of a bad token.
C6_ServiceUnavailable ==
    (Verified /\ resp.fetched /\ ~resp.fetch.ok)
        => /\ resp.status \in {500, 503}
           /\ resp.detail.text = "Unable to fetch JWKS"

\* C7: no locally issued token authorizes a resource endpoint, and no token
\* of the identity provider authorizes a profile or session endpoint.
C7_DomainsNotInterchangeable ==
    /\ (resp.op \in ResourceOps /\ Presented \in AccessTokens \cup RefreshTokens)
          => (resp.user_id = "-" /\ resp.status \in {401, 429})
    /\ (resp.op \in ProfileOps /\ Presented \in ExternalTokens)
          => (resp.user_id = "-" /\ resp.status \in {401, 500})

\* An access token that authorizes /auth/me at that instant is refused by a
\* resource endpoint although the key set in use has a key without kid.
C7_Witness ==
    /\ resp.op \in ResourceOps
    /\ Presented = create_access_token("u1", 0)
    /\ get_current_user(Presented, users, resp.at, pyjwt_exp_inclusive).status = 200
    /\ JwkNoKid \in resp.jwks.keys
    /\ resp.status = 401

\* A token the identity provider signed, good at a resource endpoint at that
\* instant, is refused by /auth/me.
C7_WitnessExternal ==
    /\ resp.op = "me"
    /\ Presented = ExternalToken(JwkEc, "ES256", "x8", "a@x.com", 7200)
    /\ resp.status # 200

\* C19: once a key set has been fetched, a later refetch that fails does not
\* make verification fail: the key set of the stale cache is used, so a token
\* the provider signed, unexpired, whose key is in the cached set, verifies.
C19_StaleCacheServes ==
    (Verified /\ resp.fetched /\ ~resp.fetch.ok /\ resp.cache_time_before.set /\
     Presented \in GenuineTokens /\ Presented.payload.exp > resp.at /\
     (\E k \in jwks_cache.keys :
         k.kid = Presented.kid /\ Presented.sig.key = KeyOf(k)))
        => /\ resp.user_id = Presented.payload.sub
           /\ resp.status # 401

\* C27: get_jwks returns the cached key set without fetching exactly when a
\* key set is cached and its timestamp is less than JWKS_TTL old, and attempts
\* a fetch in every other case; a "signing key not found" miss with a fresh
\* cache triggers none.  It returns no key set before a fetch has succeeded,
\* and the timestamp is set only together with a key set that a successful
\* fetch brought at that time.
C27_JwksCacheDiscipline ==
    /\ Verified =>
          /\ ~resp.fetched <=> (resp.cache_time_before.set /\
                                resp.at - resp.cache_time_before.t < JWKS_TTL)
          /\ ~resp.fetched => (resp.jwks = jwks_cache /\ resp.jwks.set)
          /\ resp.jwks.set =>
                \E f \in hist.fetches : f.keys = resp.jwks.keys /\ f.t <= resp.at
    /\ jwks_cache.set <=> jwks_cache_time.set
    /\ jwks_cache_time.set =>
          [t |-> jwks_cache_time.t, keys |-> jwks_cache.keys] \in hist.fetches
    /\ hist.fetches = {} => ~resp.jwks.set

\* A token whose key the provider already serves is turned away for its
\* missing key by a request that found the cache fresh and fetched nothing.
C27_Witness ==
    /\ Verified
    /\ ~resp.fetched
    /\ resp.detail.inner = "401: Signing key not found in JWKS"
    /\ \E k \in idp_keys : k.kid = Presented.kid /\ Presented.sig.key = KeyOf(k)

-----------------------------------------------------------------------------
(* The password policy                                                     *)

\* Requests served in a run of the password specification
MaxPwReq == 2

\* Passwords of the runs: every combination of the four character classes at
\* lengths on both sides of the two limits, padded with spaces (a character of
\* none of the classes), and the three passwords of the examples
PwLengths == {11, 12, 13, 127, 128, 129}
PwClasses == {"upper", "lower", "digit", "special"}

PasswordOf(n, classes) ==
    [i \in 1..n |->
        IF i = 1 /\ "upper" \in classes THEN "Q"
        ELSE IF i = 2 /\ "lower" \in classes THEN "q"
        ELSE IF i = 3 /\ "digit" \in classes THEN "7"
        ELSE IF i = 4 /\ "special" \in classes THEN "?"
        ELSE " "]

Passwords ==
    {PasswordOf(n, classes) : n \in PwLengths, classes \in SUBSET PwClasses}
        \cup {PwShort, PwNoDigits, PwValidPass}

\* Bearer tokens presented to change-password in these runs
PwTokens == {create_access_token("u1", 0), MalformedToken}

\* A call of validate_password_strength; the result is the response's body
ValidatePassword(password) ==
    LET v == validate_password_strength(password)
    IN
    /\ budget > 0
    /\ budget' = budget - 1
    /\ audit' = << >>
    /\ resp' = [Response("validate_password_strength", "-", 0,
                          Detail(v.message, "-"), "-", NoTokens,
                          [NoReq EXCEPT !.password = password])
                EXCEPT !.body = {v}]
    /\ UNCHANGED <<now, dbVars, limiterVars, jwksVars, pyjwt_exp_inclusive,
                   utc_offset, db_pool, calls, hist>>

InitPw ==
    /\ InitCommon
    /\ budget = MaxPwReq
    /\ users = SeedUsers
    /\ sessions = SeedSessions
    /\ transactions = {}
    /\ idp_keys = {}
    /\ pyjwt_exp_inclusive = TRUE
    /\ utc_offset = 0
    /\ db_pool = SimpleConnectionPool

NextPw ==
    \/ \E password \in Passwords : ValidatePassword(password)
    \/ \E password \in Passwords :
          Register("10.0.0.1", "c@x.com", password, "Cy")
    \/ \E token \in PwTokens, password \in Passwords :
          ChangePassword(token, PwAbcdef, password)

SpecPw == InitPw /\ [][NextPw]_vars

\* The policy as the specification words it
MeetsPolicy(password) ==
    LET chars == {password[i] : i \in 1..Len(password)}
    IN /\ Len(password) >= 12
       /\ Len(password) <= 128
       /\ chars \cap UpperChars # {}
       /\ chars \cap LowerChars # {}
       /\ chars \cap DigitChars # {}
       /\ chars \cap SpecialChars # {}

PolicyResult == CHOOSE v \in resp'.body : TRUE

\* C25: validate_password_strength accepts a password exactly when its length
\* is between 12 and 128 inclusive and it holds an uppercase letter, a
\* lowercase letter, a digit and a character of the punctuation set, and gives
\* a reason for every password it rejects; a register request with a password
\* the check rejects is answered 422 (429 when the rate limit refuses it
\* first), a change-password request of an authenticated caller with such a
\* new password 422, and neither writes to users or auth_sessions.
C25_PasswordPolicy ==
    [][/\ Served({"validate_password_strength"})
           => /\ PolicyResult.ok <=> MeetsPolicy(resp'.req.password)
              /\ ~PolicyResult.ok => PolicyResult.message # ""
       /\ (Served({"register"}) /\ ~MeetsPolicy(resp'.req.password))
           => /\ resp'.status \in {422, 429}
              /\ resp'.tokens = {}
              /\ UNCHANGED <<users, sessions>>
       /\ (Served({"change_password"}) /\ ~MeetsPolicy(resp'.req.new_password))
           => /\ resp'.status # 200
              /\ (\A token \in resp'.req.token :
                     get_current_user(token, users, now,
                                      pyjwt_exp_inclusive).status = 200)
                    => resp'.status = 422
              /\ UNCHANGED <<users, sessions>>]_vars

\* A password of all four classes and one character too long has been refused
\* by the check for its length.
C25_Witness ==
    /\ resp.op = "validate_password_strength"
    /\ Len(resp.req.password) = 129
    /\ resp.req.password[1] = "Q" /\ resp.req.password[2] = "q"
    /\ resp.req.password[3] = "7" /\ resp.req.password[4] = "?"
    /\ resp.body = {[ok |-> FALSE,
                     message |-> "Password must be less than 128 characters"]}

-----------------------------------------------------------------------------
(* Creating and deleting transactions                                      *)

\* Requests served in a run of the transaction specification
MaxTxReq == 3

\* The largest amount TransactionBase and validate_amount accept, in units
MAX_AMOUNT == 1000000000

\* A request carries its amount in thousandths of the currency unit, a stored
\* row in hundredths: the column is DECIMAL(12, 2), and PostgreSQL rounds the
\* literal psycopg2 writes for the float half away from zero.
to_decimal_12_2(mills) == (mills + 5) \div 10

\* TransactionCreate: the field constraints and the amount validator
TransactionCreateOk(body) ==
    /\ body.type \in {"income", "expense"}
    /\ body.amount > 0
    /\ (body.amount + 999) \div 1000 <= MAX_AMOUNT
    /\ body.category # ""

\* create_transaction once authorized and validated.  The INSERT fails when
\* user_id is no UUID, and, after it has drawn its id from the sequence, when
\* the rounded amount breaks CHECK (amount > 0).
create_transaction(tbl, seq, user_id, body, t) ==
    LET row == TxRow(seq, user_id, body.type, to_decimal_12_2(body.amount),
                     sanitize_string(body.category), body.date, t)
    IN IF ~IsUuid(user_id)
       THEN [status |-> 500, detail |-> Detail("invalid input syntax for type uuid", "-"),
             table |-> get_db_connection(TRUE, tbl, tbl), seq |-> seq,
             result |-> {}]
       ELSE IF row.amount <= 0
       THEN [status |-> 500, detail |-> Detail("violates check constraint", "-"),
             table |-> get_db_connection(TRUE, tbl, tbl), seq |-> seq + 1,
             result |-> {}]
       ELSE [status |-> 200, detail |-> Detail("-", "-"),
             table |-> get_db_connection(FALSE, tbl, tbl \cup {row}),
             seq |-> seq + 1, result |-> {row}]

\* A DELETE that does not ask whose row it is
delete_transaction_AnyOwner(tbl, seq, user_id, transaction_id) ==
    LET hit == {row \in tbl : row.id = transaction_id}
    IN IF ~IsUuid(user_id)
       THEN [status |-> 500, detail |-> Detail("invalid input syntax for type uuid", "-"),
             table |-> tbl, seq |-> seq, result |-> {}]
       ELSE IF hit = {}
       THEN [status |-> 404, detail |-> Detail("Transaction not found", "-"),
             table |-> tbl, seq |-> seq, result |-> {}]
       ELSE [status |-> 200, detail |-> Detail("-", "-"),
             table |-> tbl \ hit, seq |-> seq,
             result |-> {"Transaction deleted successfully"}]

\* delete_transaction once authorized: DELETE ... WHERE id = %s AND
\* user_id = %s; with rowcount 0 the handler raises the 404 inside the with
\* block, which rolls back and re-raises it; otherwise it commits.
delete_transaction(tbl, seq, user_id, transaction_id) ==
    LET hit == {row \in tbl : row.id = transaction_id /\ row.user_id = user_id}
    IN IF ~IsUuid(user_id)
       THEN [status |-> 500, detail |-> Detail("invalid input syntax for type uuid", "-"),
             table |-> get_db_connection(TRUE, tbl, tbl), seq |-> seq,
             result |-> {}]
       ELSE IF Cardinality(hit) = 0
       THEN [status |-> 404, detail |-> Detail("Transaction not found", "-"),
             table |-> get_db_connection(TRUE, tbl, tbl \ hit), seq |-> seq,
             result |-> {}]
       ELSE [status |-> 200, detail |-> Detail("-", "-"),
             table |-> get_db_connection(FALSE, tbl, tbl \ hit), seq |-> seq,
             result |-> {"Transaction deleted successfully"}]

NoTransaction == [type |-> "-", amount |-> 0, category |-> "-", date |-> NoDate]

\* A request that writes to the transactions table: the route's rate-limit
\* dependency, then verify_supabase_token, then the validation of the body,
\* then the handler.
WriteRequest(op, ip, endpoint, token, transaction_id, body, fetch) ==
    LET rl == rl_check_rate_limit(requests, ip, endpoint, now)
        v == verify_supabase_token(token, jwks_cache, jwks_cache_time, now,
                                   fetch, pyjwt_exp_inclusive)
        req == [NoReq EXCEPT !.token = {token}, !.endpoint = endpoint,
                             !.email = v.identity.email,
                             !.transaction_id = transaction_id,
                             !.transaction = IF op = "create_transaction"
                                             THEN {body} ELSE {}]
        h == IF op = "create_transaction"
             THEN create_transaction(transactions, tx_seq, v.identity.user_id,
                                     body, now)
             ELSE delete_transaction(transactions, tx_seq, v.identity.user_id,
                                     transaction_id)
        R(status, detail, result) ==
            [Response(op, ip, status, detail, v.identity.user_id, NoTokens, req)
             EXCEPT !.jwks = v.jwks, !.fetched = v.fetched, !.fetch = fetch,
                    !.cache_time_before = IF jwks_cache.set THEN jwks_cache_time
                                          ELSE NoTime,
                    !.body = result]
    IN
    /\ budget > 0
    /\ budget' = budget - 1
    /\ requests' = rl.requests
    /\ audit' = << >>
    /\ IF ~rl.allowed
       THEN /\ resp' = RateLimitResponse(op, ip, [req EXCEPT !.email = NoEmail],
                                         rl.window)
            /\ UNCHANGED <<jwks_cache, jwks_cache_time, transactions, tx_seq,
                           hist>>
       ELSE /\ jwks_cache' = v.cache
            /\ jwks_cache_time' = v.cache_time
            /\ hist' = [hist EXCEPT !.fetches =
                           IF v.fetched /\ fetch.ok
                           THEN @ \cup {[t |-> now, keys |-> fetch.keys]}
                           ELSE @]
            /\ IF v.status # 200
               THEN /\ resp' = R(v.status, v.detail, {})
                    /\ UNCHANGED <<transactions, tx_seq>>
               ELSE IF op = "create_transaction" /\ ~TransactionCreateOk(body)
               THEN /\ resp' = R(422, Detail("Unprocessable Entity", "-"), {})
                    /\ UNCHANGED <<transactions, tx_seq>>
               ELSE /\ resp' = R(h.status, h.detail, h.result)
                    /\ transactions' = h.table
                    /\ tx_seq' = h.seq
    /\ UNCHANGED <<now, users, sessions, failed_attempts, idp_keys,
                   pyjwt_exp_inclusive, utc_offset, db_pool, calls>>

\* POST /transactions
CreateTransaction(ip, token, body, fetch) ==
    WriteRequest("create_transaction", ip, "/transactions", token, 0, body, fetch)

\* DELETE /transactions/{transaction_id}; the limiter's key is the path
DeleteTransaction(ip, token, transaction_id, fetch) ==
    WriteRequest("delete_transaction", ip, "/transactions/{id}", token,
                 transaction_id, NoTransaction, fetch)

\* Callers of the runs: the two subjects of the identity provider, a caller
\* whose subject is no UUID, and a token that does not parse
TxTokens ==
    {ExternalToken(JwkRsa, "RS256", "x7", "x@x.com", 7200),
     ExternalToken(JwkEc, "ES256", "x8", "a@x.com", 7200),
     jwt_encode([sub |-> "u1", exp |-> 7200, type |-> NoType,
                 email |-> "a@x.com"], SUPABASE_JWT_SECRET, ALGORITHM, NoKid),
     MalformedToken}

\* Bodies of the create requests of the runs, the amount in thousandths
TxBodies ==
    {[type |-> "expense", amount |-> 50000, category |-> "food", date |-> 5],
     [type |-> "income", amount |-> 7000, category |-> "gift", date |-> 2],
     [type |-> "expense", amount |-> 15, category |-> "food", date |-> 3],
     [type |-> "income", amount |-> 4, category |-> "gift", date |-> 2],
     [type |-> "transfer", amount |-> 1000, category |-> "gift", date |-> 2]}

\* Ids of the delete requests: a row of x7, the row of x8, the first row a
\* run creates, and an id no row gets
TxIds == {1, 4, 5, 9}

\* Date ranges of the summary requests
TxQueries ==
    {[type |-> NoFilter, category |-> NoFilter, start_date |-> d[1],
      end_date |-> d[2], limit |-> 100] :
        d \in {<<NoDate, NoDate>>, <<2, 3>>, <<5, 5>>, <<2, NoDate>>,
               <<NoDate, 2>>}}

InitTx ==
    /\ InitCommon
    /\ budget = MaxTxReq
    /\ users = SeedUsers
    /\ sessions = SeedSessions
    /\ transactions = SeedTransactions
    /\ idp_keys = {JwkRsa, JwkEc}
    /\ pyjwt_exp_inclusive = TRUE
    /\ utc_offset = 0
    /\ db_pool = SimpleConnectionPool

NextTx ==
    \/ \E token \in TxTokens, body \in TxBodies, fetch \in Fetches :
          CreateTransaction("10.0.0.1", token, body, fetch)
    \/ \E token \in TxTokens, id \in TxIds, fetch \in Fetches :
          DeleteTransaction("10.0.0.1", token, id, fetch)
    \/ \E token \in TxTokens, q \in TxQueries, fetch \in Fetches :
          GetSummary("10.0.0.1", token, q, fetch)

SpecTx == InitTx /\ [][NextTx]_vars

\* The request was let through by the rate limit and made by a caller the
\* verifier accepted under a subject that is a UUID
ByCaller(op) ==
    /\ Served({op})
    /\ resp'.status \notin {401, 429}
    /\ IsUuid(resp'.user_id)

\* C22: DELETE /transactions/{id} by caller u removes the row with that id
\* exactly when it exists and is u's, and answers 200; otherwise it answers
\* 404 "Transaction not found" and the table is as before.  No request of
\* any kind removes a row of a user other than its caller.
C22_DeleteOnlyOwn ==
    [][/\ ByCaller("delete_transaction")
           => LET own == {row \in transactions :
                             /\ row.id = resp'.req.transaction_id
                             /\ row.user_id = resp'.user_id}
              IN IF own # {}
                 THEN /\ resp'.status = 200
                      /\ transactions' = transactions \ own
                 ELSE /\ resp'.status = 404
                      /\ resp'.detail.text = "Transaction not found"
                      /\ transactions' = transactions
       /\ \A row \in transactions \ transactions' :
              /\ Served({"delete_transaction"})
              /\ resp'.status = 200
              /\ row.user_id = resp'.user_id]_vars

\* x7 has asked for the deletion of the row of x8 and been answered 404, the
\* row still there.
C22_Witness ==
    /\ resp.op = "delete_transaction"
    /\ resp.user_id = "x7"
    /\ resp.req.transaction_id = 4
    /\ resp.status = 404
    /\ \E row \in transactions : row.id = 4 /\ row.user_id = "x8"

\* C23: GET /summary answered 200 for caller u returns, over the rows of u
\* whose date is in the range asked for (inclusive, either end optional),
\* the sum of the income amounts, the sum of the expense amounts, their
\* difference and the number of rows, whatever creates and deletes came
\* before; rows of other users contribute to none of the four.
C23_SummaryOfOwnRows ==
    (resp.op = "get_summary" /\ resp.status = 200)
        => \A q \in resp.req.query, b \in resp.body :
              LET own == {row \in transactions :
                             /\ row.user_id = resp.user_id
                             /\ (q.start_date = NoDate \/ row.date >= q.start_date)
                             /\ (q.end_date = NoDate \/ row.date <= q.end_date)}
              IN /\ Cardinality(resp.req.query) = 1
                 /\ Cardinality(resp.body) = 1
                 /\ b.total_income
                        = SumAmount({row \in own : row.type = "income"})
                 /\ b.total_expenses
                        = SumAmount({row \in own : row.type = "expense"})
                 /\ b.net_balance = b.total_income - b.total_expenses
                 /\ b.transaction_count = Cardinality(own)

\* x8 and x7 have each created an expense of 50.00 dated 5; the summary of x8
\* for the dates 5 to 5 shows one expense of 50.00.
C23_Witness ==
    /\ resp.op = "get_summary"
    /\ resp.status = 200
    /\ resp.user_id = "x8"
    /\ resp.body = {[total_income |-> 0, total_expenses |-> 5000,
                      net_balance |-> -5000, transaction_count |-> 1]}
    /\ \E row \in transactions : row.user_id = "x8" /\ row.date = 5
    /\ \E row \in transactions : row.user_id = "x7" /\ row.date = 5

-----------------------------------------------------------------------------
(* Registrations served at the same time                                   *)

\* The handlers are coroutines that never await, so one process runs them one
\* after another; a deployment with several worker processes runs one in each,
\* every process with its own limiter, each handler on its own connection and
\* in its own transaction.  A step is one statement of register_user.
MaxWorkers == 2
Workers == 1..MaxWorkers

\* Register requests received in a run of this specification
MaxRegCalls == 4

\* The clients of worker w reach it from one address, so that requests[ip]
\* is the list of its limiter
WorkerIp(w) == IF w = 1 THEN "10.0.0.1" ELSE "10.0.0.2"

IdleRegistration ==
    [pc |-> "idle", email |-> NoEmail, password |-> << >>, user_id |-> "-",
     written |-> {}]

\* Register requests of these runs: <<email, password>>
RaceInputs ==
    {<<"c@x.com", PwValidPass>>, <<"a@x.com", PwValidPass>>,
     <<"c@x.com", PwShort>>}

RegReq(c) ==
    [NoReq EXCEPT !.email = c.email, !.password = c.password,
                  !.full_name = "Cy", !.endpoint = "/auth/register"]

\* The answer a registration gave, for the record of the run; raced tells
\* that another worker had at that moment inserted a row for the same email
\* in a transaction still open
Answer(w, c, status, user_id) ==
    [worker |-> w, email |-> c.email, status |-> status, user_id |-> user_id,
     raced |-> \E o \in Workers \ {w} :
                  calls[o].pc = "session" /\ calls[o].email = c.email]

\* The request arrives: check_rate_limit, then the validation of the body
RegBegin(w, email, password) ==
    LET ip == WorkerIp(w)
        rl == rl_check_rate_limit(requests, ip, "/auth/register", now)
        c == [IdleRegistration EXCEPT !.email = email, !.password = password]
        refused == ~rl.allowed \/ ~UserRegisterOk(email, password, "Cy")
    IN
    /\ budget > 0
    /\ calls[w].pc = "idle"
    /\ budget' = budget - 1
    /\ requests' = rl.requests
    /\ calls' = IF refused THEN calls
                ELSE [calls EXCEPT ![w] = [c EXCEPT !.pc = "select"]]
    /\ resp' = IF ~rl.allowed
               THEN RateLimitResponse("register", ip, RegReq(c), rl.window)
               ELSE IF refused
               THEN ValidationResponse("register", ip, RegReq(c))
               ELSE resp
    /\ hist' = IF refused
               THEN [hist EXCEPT !.answers =
                        @ \cup {Answer(w, c, IF rl.allowed THEN 422 ELSE 429,
                                       "-")}]
               ELSE hist
    /\ UNCHANGED <<now, dbVars, failed_attempts, jwksVars, pyjwt_exp_inclusive,
                   utc_offset, db_pool, audit>>

\* SELECT email FROM users WHERE email = %s: the statement sees the rows
\* committed when it runs; a row found raises the 400
RegSelect(w) ==
    LET c == calls[w]
        found == UsersByEmail(users, c.email) # {}
    IN
    /\ c.pc = "select"
    /\ IF found
       THEN /\ calls' = [calls EXCEPT ![w] = IdleRegistration]
            /\ resp' = Response("register", WorkerIp(w), 400,
                                Detail("Email already registered", "-"), "-",
                                NoTokens, RegReq(c))
            /\ hist' = [hist EXCEPT !.answers = @ \cup {Answer(w, c, 400, "-")}]
       ELSE /\ \E user_id \in NewUserIds \ ({u.user_id : u \in users} \cup
                                            {calls[o].user_id : o \in Workers}) :
                  calls' = [calls EXCEPT ![w].pc = "insert",
                                         ![w].user_id = user_id]
            /\ UNCHANGED <<resp, hist>>
    /\ UNCHANGED <<now, dbVars, limiterVars, jwksVars, pyjwt_exp_inclusive,
                   utc_offset, db_pool, audit, budget>>

\* INSERT INTO users: the row is written in the worker's open transaction
RegInsertUser(w) ==
    LET c == calls[w]
        row == [UserRow(c.user_id, c.email, c.password, sanitize_string("Cy"), 1)
                EXCEPT !.created_at = LocalNow, !.updated_at = LocalNow]
    IN
    /\ c.pc = "insert"
    /\ calls' = [calls EXCEPT ![w].pc = "session", ![w].written = {row}]
    /\ UNCHANGED <<now, dbVars, limiterVars, jwksVars, pyjwt_exp_inclusive,
                   utc_offset, db_pool, resp, audit, hist, budget>>

\* INSERT INTO auth_sessions, commit and return: the statement runs on the
\* cursor the with block has closed and with "?" placeholders, and the
\* exception leaves get_db_connection's block
RegInsertSession(w) ==
    LET c == calls[w]
        ip == WorkerIp(w)
        access_token == create_access_token(c.user_id, now)
        refresh_token == create_refresh_token(c.user_id, now)
        raised == CursorClosedAfterWith \/ QmarkPlaceholdersRejected
    IN
    /\ c.pc = "session"
    /\ \E session_id \in NewSessionIds \ {x.session_id : x \in sessions} :
          LET session == SessionRow(session_id, c.user_id, access_token,
                                    refresh_token, now + RefreshLifetime,
                                    LocalNow, ip)
          IN sessions' = get_db_connection(raised, sessions,
                                           IF raised THEN sessions
                                           ELSE sessions \cup {session})
    /\ users' = get_db_connection(raised, users, users \cup c.written)
    /\ calls' = [calls EXCEPT ![w] = IdleRegistration]
    /\ resp' = IF raised
               THEN ServerErrorResponse("register", ip, RegReq(c),
                                        "psycopg2.InterfaceError")
               ELSE Response("register", ip, 200, Detail("-", "-"), c.user_id,
                             {[access |-> access_token,
                               refresh |-> refresh_token]}, RegReq(c))
    /\ hist' = [hist EXCEPT !.answers =
                   @ \cup {Answer(w, c, IF raised THEN 500 ELSE 200, c.user_id)}]
    /\ UNCHANGED <<now, transactions, tx_seq, limiterVars, jwksVars,
                   pyjwt_exp_inclusive, utc_offset, db_pool, audit, budget>>

InitReg ==
    /\ now = 0
    /\ requests = [ip \in IPs |-> << >>]
    /\ failed_attempts = [ip \in IPs |-> << >>]
    /\ jwks_cache = NoJwks
    /\ jwks_cache_time = NoTime
    /\ resp = NoResponse
    /\ audit = << >>
    /\ hist = NoHist
    /\ tx_seq = 1
    /\ calls = [w \in Workers |-> IdleRegistration]
    /\ budget = MaxRegCalls
    /\ users = SeedUsers
    /\ sessions = SeedSessions
    /\ transactions = {}
    /\ idp_keys = {}
    /\ pyjwt_exp_inclusive = TRUE
    /\ utc_offset = 0
    /\ db_pool = SimpleConnectionPool

NextReg ==
    \/ \E w \in Workers, r \in RaceInputs : RegBegin(w, r[1], r[2])
    \/ \E w \in Workers : RegSelect(w)
    \/ \E w \in Workers : RegInsertUser(w)
    \/ \E w \in Workers : RegInsertSession(w)

SpecReg == InitReg /\ [][NextReg]_vars

\* C29: whatever the interleaving of the statements of register requests,
\* two of them for one email at the same time included, no two rows of users
\* share an email, and of the registrations for one email at most one is
\* answered with tokens.
C29_EmailUnique ==
    /\ \A u \in users, o \in users : u.email = o.email => u = o
    /\ \A a \in hist.answers, b \in hist.answers :
          (a.email = b.email /\ a.status = 200 /\ b.status = 200) => a = b

\* Both workers have answered a registration for c@x.com that had passed the
\* SELECT, one of them while the other's row was inserted and uncommitted.
C29_Witness ==
    /\ \A w \in Workers : calls[w].pc = "idle"
    /\ \E a \in hist.answers, b \in hist.answers :
          /\ a.worker # b.worker
          /\ a.email = "c@x.com" /\ b.email = "c@x.com"
          /\ a.user_id # "-" /\ b.user_id # "-"
          /\ a.raced

-----------------------------------------------------------------------------
(* The failed-attempt lists                                                *)

\* Login requests served and clock advances in a run of this specification
MaxAttemptReq == 3
MaxAttemptTicks == 2
AttemptSteps == {300, 3300}

\* Logins of these runs: from 10.0.0.1 a wrong password, the right password
\* of the active user, the right password of the disabled user, an unknown
\* address and a body that is no address; from 10.0.0.2 a wrong password
AttemptLogins ==
    {<<"10.0.0.1", "a@x.com", PwValidPass>>, <<"10.0.0.1", "a@x.com", PwAbcdef>>,
     <<"10.0.0.1", "b@x.com", PwValidPass>>, <<"10.0.0.1", "c@x.com", PwValidPass>>,
     <<"10.0.0.1", "not-an-email", PwAbcdef>>,
     <<"10.0.0.2", "a@x.com", PwValidPass>>}

\* The failed logins 10.0.0.1 has made when these runs start: five at 0 and
\* four at 300, all admitted by the login limit of 5 per 300 s
EarlierFailures == <<0, 0, 0, 0, 0, 300, 300, 300, 300>>

\* The limiter after those logins, at 300: the nine timestamps, and in
\* requests the entries of the four logins at 300 (the first of them purged
\* the five of 0)
InitAttempts ==
    /\ now = 300
    /\ requests = [ip \in IPs |->
                      IF ip = "10.0.0.1"
                      THEN [i \in 1..4 |-> <<300, "/auth/login">>]
                      ELSE << >>]
    /\ failed_attempts = [ip \in IPs |->
                             IF ip = "10.0.0.1" THEN EarlierFailures ELSE << >>]
    /\ hist = [NoHist EXCEPT !.failures =
                   [e \in {[ip |-> "10.0.0.1", t |-> 0],
                            [ip |-> "10.0.0.1", t |-> 300]} |->
                       IF e.t = 0 THEN 5 ELSE 4]]
    /\ jwks_cache = NoJwks
    /\ jwks_cache_time = NoTime
    /\ resp = NoResponse
    /\ audit = << >>
    /\ tx_seq = 1
    /\ calls = [th \in Threads |-> IdleCall]
    /\ budget = MaxAttemptReq
    /\ users = SeedUsers
    /\ sessions = SeedSessions
    /\ transactions = {}
    /\ idp_keys = {}
    /\ pyjwt_exp_inclusive = TRUE
    /\ utc_offset = 0
    /\ db_pool = SimpleConnectionPool

AttemptTick ==
    /\ budget > 0
    /\ hist.ticks < MaxAttemptTicks
    /\ \E d \in AttemptSteps : now' = now + d
    /\ hist' = [hist EXCEPT !.ticks = @ + 1]
    /\ UNCHANGED <<dbVars, limiterVars, jwksVars, pyjwt_exp_inclusive,
                   utc_offset, db_pool, calls, resp, audit, budget>>

NextAttempts ==
    \/ \E l \in AttemptLogins : Login(l[1], l[2], l[3])
    \/ AttemptTick

SpecAttempts == InitAttempts /\ [][NextAttempts]_vars

\* The step is a login from ip that the login limit admitted and whose body
\* passed validation: the handler ran
LoginHandled(ip) ==
    /\ Served({"login"})
    /\ resp'.ip = ip
    /\ resp'.status # 422
    /\ resp'.detail.text # "Rate limit exceeded"

\* C31: the failed-attempt list of an IP is left as it was by every step
\* that is not a login from that IP whose handler ran.  Such a login drops
\* the timestamps that are not younger than 3600 s, and then appends the time
\* of the request if it was not throttled and its email is unknown or its
\* password wrong; throttled, with good credentials (of an active or of a
\* disabled user) it appends nothing, and it never drops a younger timestamp.
C31_FailedAttemptsFrame ==
    [][\A ip \in IPs :
          LET Young(ts) == now - ts < 3600
              kept == SelectSeq(failed_attempts[ip], Young)
              throttled == Len(kept) >= 10
              bad == \A u \in users :
                        u.email = resp'.req.email
                            => ~verify_password(resp'.req.password,
                                                u.password_hash)
          IN failed_attempts'[ip] =
                IF ~LoginHandled(ip) THEN failed_attempts[ip]
                ELSE IF ~throttled /\ bad THEN Append(kept, now)
                ELSE kept]_vars

\* A wrong password from 10.0.0.1 at 3600 or later: the five timestamps of 0
\* are gone, the younger ones kept and the time of the request appended,
\* and the list of 10.0.0.2 is empty.
C31_Witness ==
    /\ resp.op = "login"
    /\ resp.ip = "10.0.0.1"
    /\ resp.status = 401
    /\ resp.at >= 3600
    /\ Len(failed_attempts["10.0.0.1"]) >= 5
    /\ \A i \in 1..Len(failed_attempts["10.0.0.1"]) :
          failed_attempts["10.0.0.1"][i] >= 300
    /\ failed_attempts["10.0.0.1"][Len(failed_attempts["10.0.0.1"])] = resp.at
    /\ failed_attempts["10.0.0.2"] = << >>

-----------------------------------------------------------------------------
(* Accounts that are deactivated or removed                                *)

\* Requests served in a run of this specification
MaxActiveReq == 2

\* Bearer tokens of these runs: the access and refresh tokens issued at 0 to
\* u1, to u2 (disabled from the start) and to u9 (no row)
ActiveInputs == AccessTokensOf({0}) \cup RefreshTokensOf({0})

ActiveClock == {60, 1800}

\* The program has no operation that deactivates or removes a user: the row
\* is changed in the database by other means.
Deactivate(user_id) ==
    /\ budget > 0
    /\ \E u \in users : u.user_id = user_id /\ u.is_active = 1
    /\ users' = {IF u.user_id = user_id THEN [u EXCEPT !.is_active = 0] ELSE u :
                    u \in users}
    /\ UNCHANGED <<now, sessions, transactions, tx_seq, limiterVars, jwksVars,
                   pyjwt_exp_inclusive, utc_offset, db_pool, calls, resp, audit, hist,
                   budget>>

RemoveUser(user_id) ==
    /\ budget > 0
    /\ \E u \in users : u.user_id = user_id
    /\ users' = {u \in users : u.user_id # user_id}
    /\ UNCHANGED <<now, sessions, transactions, tx_seq, limiterVars, jwksVars,
                   pyjwt_exp_inclusive, utc_offset, db_pool, calls, resp, audit, hist,
                   budget>>

ActiveTick ==
    /\ budget > 0
    /\ \E t \in ActiveClock : t > now /\ now' = t
    /\ UNCHANGED <<dbVars, limiterVars, jwksVars, pyjwt_exp_inclusive,
                   utc_offset, db_pool, calls, resp, audit, hist, budget>>

InitActive ==
    /\ InitCommon
    /\ budget = MaxActiveReq
    /\ users = SeedUsers
    /\ sessions = SeedSessions
    /\ transactions = {}
    /\ idp_keys = {}
    /\ pyjwt_exp_inclusive \in BOOLEAN
    /\ utc_offset = 0
    /\ db_pool = SimpleConnectionPool

NextActive ==
    \/ \E token \in ActiveInputs : GetMe(token)
    \/ \E token \in ActiveInputs : Logout(token)
    \/ \E token \in ActiveInputs, updates \in ProfileUpdates :
          UpdateProfile(token, updates)
    \/ \E token \in ActiveInputs, p \in PasswordChanges :
          ChangePassword(token, p[1], p[2])
    \/ Deactivate("u1")
    \/ RemoveUser("u1")
    \/ ActiveTick

SpecActive == InitActive /\ [][NextActive]_vars

\* An access token the program issued that has not reached its expiry
UnexpiredAccessToken(token) ==
    /\ token \in AccessTokensOf(IssueTimes)
    /\ now < token.payload.exp

\* C32: a request to GET or PUT /auth/me, logout or change-password that
\* carries an unexpired access token of the program is refused with 401
\* "User not found or inactive", and writes nothing, when users holds no
\* active row for the token's subject; it is not refused for its token when
\* the row is there and active.
C32_InactiveUserRefused ==
    [][Served({"me", "logout", "update_profile", "change_password"})
          => \A token \in resp'.req.token :
                UnexpiredAccessToken(token)
                   => LET active == \E u \in users :
                                       /\ u.user_id = token.payload.sub
                                       /\ u.is_active = 1
                      IN /\ ~active
                            => /\ resp'.status = 401
                               /\ resp'.detail.text = "User not found or inactive"
                               /\ UNCHANGED <<users, sessions>>
                         /\ active => resp'.status # 401]_vars

\* The token of u1 logged u1 out; then u1 was deactivated, and GET /auth/me
\* with the same token, still unexpired, is answered 401.
C32_Witness ==
    /\ resp.op = "me"
    /\ resp.req.token = {create_access_token("u1", 0)}
    /\ resp.at < AccessLifetime
    /\ resp.status = 401
    /\ resp.detail.text = "User not found or inactive"
    /\ \E l \in hist.logouts : l.user_id = "u1"
    /\ \E u \in users : u.user_id = "u1" /\ u.is_active = 0

-----------------------------------------------------------------------------
(* The connection pool                                                     *)

\* Requests that enter get_db_connection() in a run of this specification
MaxPoolReq == 12

\* A connection a request holds: whether it is closed, and the state of its
\* transaction ("idle", "open", "error", or "unknown" once the server is
\* lost); pc and status belong to the request that holds it
Connection(pc, closed, tx, status) ==
    [pc |-> pc, closed |-> closed, tx |-> tx, status |-> status]

\* db_pool.getconn(): an idle connection if there is one; PoolError when
\* maxconn connections are out; else a new connection, which the server may
\* refuse
getconn(pool, connect_ok) ==
    IF pool.idle > 0
    THEN [raised |-> FALSE,
          pool |-> [idle |-> pool.idle - 1, used |-> pool.used + 1]]
    ELSE IF pool.used = MAXCONN \/ ~connect_ok
    THEN [raised |-> TRUE, pool |-> pool]
    ELSE [raised |-> FALSE, pool |-> [pool EXCEPT !.used = @ + 1]]

\* db_pool.putconn(connection): the connection is kept idle if fewer than
\* minconn are idle and it is usable (a transaction left open is rolled back
\* first), else closed; in either case it is no longer in use
putconn(pool, connection) ==
    [idle |-> IF pool.idle < MINCONN /\ ~connection.closed
                 /\ connection.tx # "unknown"
              THEN pool.idle + 1 ELSE pool.idle,
     used |-> pool.used - 1]

\* How the block inside "with get_db_connection() as conn" can end
BlockOutcomes == {"commit", "return", "HTTPException", "psycopg2.Error", "lost"}

\* get_db_connection(), from the yield to the end of the except clause: the
\* block returns (having committed or not) or raises; "except Exception"
\* rolls back and re-raises, and a rollback on a lost connection raises
\* itself.
get_db_connection_block(outcome) ==
    CASE outcome = "commit" -> Connection("finally", FALSE, "idle", 200)
      [] outcome = "return" -> Connection("finally", FALSE, "open", 200)
      [] outcome = "HTTPException" -> Connection("finally", FALSE, "idle", 404)
      [] outcome = "psycopg2.Error" -> Connection("finally", FALSE, "idle", 500)
      [] OTHER -> Connection("finally", TRUE, "unknown", 500)

\* A finally clause that is reached on the success path only
get_db_connection_finally_ErrorsLeak(pool, connection) ==
    IF connection.status = 200 THEN putconn(pool, connection) ELSE pool

\* get_db_connection(), the finally clause: "if connection:
\* db_pool.putconn(connection)"
get_db_connection_finally(pool, connection) == putconn(pool, connection)

\* A request reaches "connection = db_pool.getconn()".  When getconn raises,
\* connection is None: the except clause has nothing to roll back, the
\* finally clause nothing to return, and the request ends with 500.
PoolEnter(connect_ok) ==
    LET g == getconn(db_pool, connect_ok) IN
    /\ budget > 0
    /\ budget' = budget - 1
    /\ db_pool' = g.pool
    /\ IF g.raised
       THEN /\ resp' = ServerErrorResponse("get_db_connection", "-", NoReq,
                                           IF db_pool.used = MAXCONN
                                           THEN "PoolError"
                                           ELSE "psycopg2.OperationalError")
            /\ calls' = calls
       ELSE /\ calls' = calls (+) SetToBag({Connection("yielded", FALSE,
                                                       "idle", 0)})
            /\ resp' = resp
    /\ UNCHANGED <<now, dbVars, limiterVars, jwksVars, pyjwt_exp_inclusive,
                   utc_offset, audit, hist>>

\* The block of a request in flight ends
PoolBlock(outcome) ==
    LET held == Connection("yielded", FALSE, "idle", 0) IN
    /\ BagIn(held, calls)
    /\ calls' = (calls (-) SetToBag({held}))
                    (+) SetToBag({get_db_connection_block(outcome)})
    /\ UNCHANGED <<now, dbVars, limiterVars, jwksVars, pyjwt_exp_inclusive,
                   utc_offset, db_pool, resp, audit, hist, budget>>

\* The finally clause of a request whose block has ended, and its response
PoolExit(connection) ==
    /\ BagIn(connection, calls)
    /\ connection.pc = "finally"
    /\ db_pool' = get_db_connection_finally(db_pool, connection)
    /\ calls' = calls (-) SetToBag({connection})
    /\ resp' = Response("get_db_connection", "-", connection.status,
                        Detail("-", "-"), "-", NoTokens, NoReq)
    /\ UNCHANGED <<now, dbVars, limiterVars, jwksVars, pyjwt_exp_inclusive,
                   utc_offset, audit, hist, budget>>

InitPool ==
    /\ now = 0
    /\ requests = [ip \in IPs |-> << >>]
    /\ failed_attempts = [ip \in IPs |-> << >>]
    /\ jwks_cache = NoJwks
    /\ jwks_cache_time = NoTime
    /\ resp = NoResponse
    /\ audit = << >>
    /\ hist = NoHist
    /\ tx_seq = 1
    /\ calls = EmptyBag
    /\ budget = MaxPoolReq
    /\ users = SeedUsers
    /\ sessions = SeedSessions
    /\ transactions = {}
    /\ idp_keys = {}
    /\ pyjwt_exp_inclusive = TRUE
    /\ utc_offset = 0
    /\ db_pool = SimpleConnectionPool

NextPool ==
    \/ \E connect_ok \in BOOLEAN : PoolEnter(connect_ok)
    \/ \E outcome \in BlockOutcomes : PoolBlock(outcome)
    \/ \E connection \in BagToSet(calls) : PoolExit(connection)

SpecPool == InitPool /\ [][NextPool]_vars

\* C33: the connections in use are exactly those of the requests inside
\* get_db_connection(), however their blocks ended: never more than 10, none
\* when no request is in flight; and a connection that reaches the finally
\* clause after an exception, unless it is lost, has had its transaction
\* rolled back.
C33_ConnectionsReturned ==
    /\ db_pool.used <= 10
    /\ db_pool.used = BagCardinality(calls)
    /\ calls = EmptyBag => db_pool.used = 0
    /\ \A c \in BagToSet(calls) :
          (c.pc = "finally" /\ c.status # 200 /\ ~c.closed) => c.tx = "idle"

\* All the requests of the run have come and ended, the last of them with an
\* error after it had taken a connection: no connection is in use.
C33_Witness ==
    /\ budget = 0
    /\ calls = EmptyBag
    /\ db_pool.used = 0
    /\ resp.op = "get_db_connection"
    /\ resp.status = 500
    /\ resp.detail.inner = "-"

=============================================================================
